---- MODULE Spec2Model ----
(***************************************************************************)
(* The reputation ledger of rep-bot (src/main.py): the PostgreSQL tables   *)
(* behind DatabaseManager and the chat commands that read and write them.  *)
(*                                                                         *)
(* One action per command handler.  The database calls of a handler are    *)
(* blocking psycopg2 calls with no await between them, so a handler is one *)
(* atomic step, except clearrep, which suspends on its confirmation prompt *)
(* and is two steps.  The connection is in autocommit mode (main.py:71):   *)
(* every SQL statement commits on its own, and every DatabaseManager       *)
(* method catches any exception, logs it and returns a default.  A         *)
(* statement that raises is therefore modelled as a statement that has no  *)
(* effect and adds its name to the handler's error log.                    *)
(***************************************************************************)
EXTENDS Integers, Sequences, FiniteSets, TLC

(***************************************************************************)
(* Config (main.py:25-50)                                                  *)
(***************************************************************************)
VOUCH_REP_AMOUNT == 3
VOUCH_COOLDOWN == 600
HELPVOUCH_REP_MEMBER == 1
HELPVOUCH_REP_STAFF == 2
DUMMY_PER_DAY == 3
DUMMY_REP_REMOVE == 3
VOUCH_MIN_REASON == 3
SCAM_MIN_REASON == 5
LEADERBOARD_PER_PAGE == 10

(***************************************************************************)
(* Bounds of the model                                                     *)
(***************************************************************************)
\* stand-in for the upper limit of the INTEGER column users.reputation:
\* an UPDATE or INSERT that would exceed it raises "integer out of range"
MaxRep == 7
\* rows kept in the vouches table
MaxVouches == 2
\* rows kept in the helpvouches table
MaxHelpvouches == 2
\* ids drawn from the sequence behind scammer_reports.id
MaxReportIds == 3
\* largest dummy_usage.count the model follows
MaxCount == 4
\* clock ticks after the initial instant
MaxTicks == 2
\* SQL statements that may raise within one command
MaxFaults == 1
\* confirmation prompts awaiting a reaction
MaxPrompts == 1
\* accounts on a leaderboard long enough for several pages
MaxEntries == 21

(***************************************************************************)
(* People.  Discord ids are only ever compared for equality.               *)
(***************************************************************************)
OWNER_ID == "owner"
Members == {"owner", "mod", "user"}
Bots == {"bot"}
Everyone == Members \cup Bots
\* the members who hold one of the roles of Config.STAFF_ROLE_IDS (main.py:38-44)
Staff == {"mod"}

\* has_staff_role (main.py:556-558)
has_staff_role(member) == member \in Staff

\* is_owner (main.py:548-554)
is_owner(author) == author = OWNER_ID

(***************************************************************************)
(* Time.  `now' is the database server's clock in seconds                  *)
(* (CURRENT_TIMESTAMP); CURRENT_DATE is its calendar day.  The bot reads   *)
(* its own clock, datetime.utcnow(), which is `app_skew' seconds ahead of  *)
(* the server's.  The initial instant is two ticks before midnight.        *)
(***************************************************************************)
DAY == 24 * 60 * 60
TickStep == VOUCH_COOLDOWN \div 2
StartTime == DAY - 2 * TickStep
Skews == {0 - TickStep, 0, TickStep}

\* text of a command argument: a sequence of characters.  An argument that
\* was not given (Python's None) is the empty text: the handlers test it
\* with `not reason', which holds of both.
NoReason == <<>>
Reasons == { NoReason,
             <<" ", "o", "k", " ">>,
             <<"g", "u", "d">>,
             <<"f", "r", "a", "u", "d">> }
Amounts == {0 - 1, 0, 2, MaxRep + 1}

VARIABLES
    users,            \* table users: user_id -> [reputation, is_blacklisted]
    vouches,          \* table vouches, in insertion order
    cooldowns,        \* table cooldowns: user_id -> last_vouch
    dummy_usage,      \* table dummy_usage: user_id -> [usage_date, count]
    helpvouches,      \* table helpvouches, in insertion order
    scammer_reports,  \* table scammer_reports, in insertion order
    scammer_reports_id_seq, \* the SERIAL sequence behind scammer_reports.id
    now,              \* the database server's clock, seconds
    app_skew,         \* the bot's clock minus the server's, seconds
    prompts,          \* confirmation prompts awaiting a reaction
    view,             \* the LeaderboardView of the last paged leaderboard
    reply             \* what the last command answered and logged

dbVars == <<users, vouches, cooldowns, dummy_usage, helpvouches,
            scammer_reports, scammer_reports_id_seq>>
clockVars == <<now, app_skew>>
vars == <<users, vouches, cooldowns, dummy_usage, helpvouches,
          scammer_reports, scammer_reports_id_seq, now, app_skew,
          prompts, view, reply>>

\* CURRENT_DATE (main.py:502, 506, 510)
CURRENT_DATE == now \div DAY
\* datetime.utcnow().date() (main.py:479)
utcnow_date == (now + app_skew) \div DAY

(***************************************************************************)
(* Text helpers                                                            *)
(***************************************************************************)
RECURSIVE lstrip(_)
lstrip(s) == IF s # <<>> /\ Head(s) = " " THEN lstrip(Tail(s)) ELSE s

RECURSIVE rstrip(_)
rstrip(s) ==
    IF s # <<>> /\ s[Len(s)] = " " THEN rstrip(SubSeq(s, 1, Len(s) - 1)) ELSE s

\* str.strip
strip(s) == rstrip(lstrip(s))

\* `not reason' alone, without the length test
reason_absent(reason, n) == reason = NoReason

\* `not reason or len(reason.strip()) < n' (main.py:830, 1193)
reason_missing(reason, n) ==
    \/ reason = NoReason
    \/ Len(strip(reason)) < n

\* a table with one row put in place of (or added to) the row of that key
Upsert(T, key, row) == [k \in DOMAIN T \cup {key} |-> IF k = key THEN row ELSE T[k]]
\* a table without the row of that key
Delete(T, key) == [k \in DOMAIN T \ {key} |-> T[k]]

(***************************************************************************)
(* DatabaseManager.  Each operator takes the table as it is when the       *)
(* method runs, and `fail', true when the statement raises; it yields the  *)
(* table afterwards, or the value the method returns.                      *)
(***************************************************************************)

\* get_reputation (main.py:153-163)
get_reputation(U, user_id, fail) ==
    IF fail THEN 0
    ELSE IF user_id \in DOMAIN U THEN U[user_id].reputation ELSE 0

\* "integer out of range": the value does not fit the INTEGER column
out_of_range(n) == n > MaxRep

\* whether add_reputation's statement raises
add_reputation_raises(U, user_id, amount, fail) ==
    \/ fail
    \/ out_of_range(amount)
    \/ user_id \in DOMAIN U /\ out_of_range(U[user_id].reputation + amount)

\* an upsert that writes the new amount over the stored reputation
add_reputation_overwrite(U, user_id, amount, fail) ==
    IF add_reputation_raises(U, user_id, amount, fail) THEN U
    ELSE Upsert(U, user_id,
                [reputation |-> amount,
                 is_blacklisted |-> user_id \in DOMAIN U /\ U[user_id].is_blacklisted])

\* an upsert that also writes the default of is_blacklisted on conflict
add_reputation_resets_flag(U, user_id, amount, fail) ==
    IF add_reputation_raises(U, user_id, amount, fail) THEN U
    ELSE Upsert(U, user_id,
                [reputation |-> get_reputation(U, user_id, FALSE) + amount,
                 is_blacklisted |-> FALSE])

\* add_reputation (main.py:165-177)
add_reputation(U, user_id, amount, fail) ==
    IF add_reputation_raises(U, user_id, amount, fail) THEN U
    ELSE IF user_id \in DOMAIN U
         THEN [U EXCEPT ![user_id].reputation = @ + amount]
         ELSE Upsert(U, user_id, [reputation |-> amount, is_blacklisted |-> FALSE])

\* LEAST(a, b)
LEAST(a, b) == IF a <= b THEN a ELSE b

\* GREATEST(a, b)
GREATEST(a, b) == IF a >= b THEN a ELSE b

\* remove_reputation without GREATEST(0, ...)
remove_reputation_unclamped(U, user_id, amount, fail) ==
    IF fail THEN U
    ELSE IF user_id \in DOMAIN U
         THEN [U EXCEPT ![user_id].reputation = @ - amount]
         ELSE Upsert(U, user_id, [reputation |-> 0, is_blacklisted |-> FALSE])

\* remove_reputation (main.py:179-191)
remove_reputation(U, user_id, amount, fail) ==
    IF fail THEN U
    ELSE IF user_id \in DOMAIN U
         THEN [U EXCEPT ![user_id].reputation = GREATEST(0, @ - amount)]
         ELSE Upsert(U, user_id, [reputation |-> 0, is_blacklisted |-> FALSE])

\* whether set_reputation's statement raises
set_reputation_raises(amount, fail) == fail \/ out_of_range(amount)

\* set_reputation (main.py:193-205)
set_reputation(U, user_id, amount, fail) ==
    IF set_reputation_raises(amount, fail) THEN U
    ELSE IF user_id \in DOMAIN U
         THEN [U EXCEPT ![user_id].reputation = amount]
         ELSE Upsert(U, user_id, [reputation |-> amount, is_blacklisted |-> FALSE])

\* clear_reputation whose second DELETE selects by voucher_id
clear_reputation_by_voucher(U, V, H, user_id, failAt) ==
    << IF failAt = 1 THEN U ELSE Delete(U, user_id),
       IF failAt \in {1, 2} THEN V
       ELSE SelectSeq(V, LAMBDA r : r.voucher_id # user_id),
       IF failAt \in {1, 2, 3} THEN H
       ELSE SelectSeq(H, LAMBDA r : r.target_id # user_id) >>

\* clear_reputation whose DELETEs also take the rows the user gave
clear_reputation_either_side(U, V, H, user_id, failAt) ==
    << IF failAt = 1 THEN U ELSE Delete(U, user_id),
       IF failAt \in {1, 2} THEN V
       ELSE SelectSeq(V, LAMBDA r : r.target_id # user_id /\ r.voucher_id # user_id),
       IF failAt \in {1, 2, 3} THEN H
       ELSE SelectSeq(H, LAMBDA r : r.target_id # user_id /\ r.helper_id # user_id) >>

\* clear_reputation (main.py:207-216): three DELETEs in one try block, each
\* committed on its own; failAt is the statement that raises (0: none), and
\* the statements after it are not run.  Yields <<users, vouches, helpvouches>>.
clear_reputation(U, V, H, user_id, failAt) ==
    << IF failAt = 1 THEN U ELSE Delete(U, user_id),
       IF failAt \in {1, 2} THEN V
       ELSE SelectSeq(V, LAMBDA r : r.target_id # user_id),
       IF failAt \in {1, 2, 3} THEN H
       ELSE SelectSeq(H, LAMBDA r : r.target_id # user_id) >>

\* the ways of putting the elements of a finite set in a row
Orderings(S) ==
    {s \in [1..Cardinality(S) -> S] : \A i, j \in DOMAIN s : s[i] = s[j] => i = j}

\* get_leaderboard (main.py:218-233): the results the SELECT may return.
\* ORDER BY reputation DESC is its only sort key, so SQL leaves the order
\* of rows of equal reputation open, and each call may see another one.
get_leaderboard(U, fail) ==
    IF fail THEN {<<>>}
    ELSE LET ranked == {u \in DOMAIN U : U[u].reputation > 0}
         IN  { [i \in DOMAIN s |-> <<s[i], U[s[i]].reputation>>] :
                 s \in {o \in Orderings(ranked) :
                           \A i, j \in DOMAIN o :
                               i < j => U[o[i]].reputation >= U[o[j]].reputation} }

\* the row add_vouch inserts (main.py:243-246); created_at defaults to
\* CURRENT_TIMESTAMP (main.py:99)
VouchRow(target_id, voucher_id, reason, ts) ==
    [target_id |-> target_id, voucher_id |-> voucher_id, reason |-> reason,
     rep_amount |-> VOUCH_REP_AMOUNT, created_at |-> ts]

\* add_vouch that marks the cooldown of the target instead of the voucher
add_vouch_marks_target(V, C, target_id, voucher_id, reason, ts, failAt) ==
    << IF failAt = 1 THEN V
       ELSE Append(V, VouchRow(target_id, voucher_id, reason, ts)),
       IF failAt \in {1, 2} THEN C ELSE Upsert(C, target_id, ts) >>

\* add_vouch whose cooldown upsert does nothing on conflict: the first mark stays
add_vouch_keeps_first_mark(V, C, target_id, voucher_id, reason, ts, failAt) ==
    << IF failAt = 1 THEN V
       ELSE Append(V, VouchRow(target_id, voucher_id, reason, ts)),
       IF failAt \in {1, 2} \/ voucher_id \in DOMAIN C THEN C
       ELSE Upsert(C, voucher_id, ts) >>

\* add_vouch (main.py:239-258): the INSERT into vouches, then the cooldown
\* upsert, in one try block; failAt as in clear_reputation.
\* Yields <<vouches, cooldowns>>.
add_vouch(V, C, target_id, voucher_id, reason, ts, failAt) ==
    << IF failAt = 1 THEN V
       ELSE Append(V, VouchRow(target_id, voucher_id, reason, ts)),
       IF failAt \in {1, 2} THEN C ELSE Upsert(C, voucher_id, ts) >>

\* a cooldown that is still running when exactly VOUCH_COOLDOWN has passed
get_vouch_cooldown_strict(C, user_id, ts, fail) ==
    IF fail THEN <<>>
    ELSE IF user_id \notin DOMAIN C THEN <<>>
    ELSE LET time_passed == ts - C[user_id]
         IN  IF time_passed > VOUCH_COOLDOWN THEN <<>>
             ELSE <<VOUCH_COOLDOWN - time_passed>>

\* get_vouch_cooldown (main.py:260-281): Optional[float] as a sequence of at
\* most one number, <<>> being None
get_vouch_cooldown(C, user_id, ts, fail) ==
    IF fail THEN <<>>
    ELSE IF user_id \notin DOMAIN C THEN <<>>
    ELSE LET time_passed == ts - C[user_id]
         IN  IF time_passed >= VOUCH_COOLDOWN THEN <<>>
             ELSE <<VOUCH_COOLDOWN - time_passed>>

RECURSIVE Reverse(_)
Reverse(s) == IF s = <<>> THEN <<>> ELSE Reverse(Tail(s)) \o <<Head(s)>>

\* the first n elements of a sequence (LIMIT n)
Limit(s, n) == SubSeq(s, 1, IF Len(s) < n THEN Len(s) ELSE n)

\* get_vouch_history with ORDER BY created_at in ascending order
get_vouch_history_oldest_first(V, user_id, limit, fail) ==
    IF fail THEN <<>>
    ELSE Limit(SelectSeq(V, LAMBDA r : r.target_id = user_id), limit)

\* get_vouch_history (main.py:283-305); rows of equal created_at come out
\* latest insertion first
get_vouch_history(V, user_id, limit, fail) ==
    IF fail THEN <<>>
    ELSE Limit(Reverse(SelectSeq(V, LAMBDA r : r.target_id = user_id)), limit)

\* add_scammer_report (main.py:316-327); created_at defaults to
\* CURRENT_TIMESTAMP (main.py:138), id to the next value of the sequence
add_scammer_report(R, id, user_id, reporter_id, reason, ts, fail) ==
    IF fail THEN R
    ELSE Append(R, [id |-> id, user_id |-> user_id, reporter_id |-> reporter_id,
                    reason |-> reason, created_at |-> ts])

\* get_scammer_reports (main.py:329-350)
get_scammer_reports(R, user_id, fail) ==
    IF fail THEN <<>>
    ELSE Reverse(SelectSeq(R, LAMBDA r : r.user_id = user_id))

\* an id taken as one more than the largest id still in the table
max_id_plus_one(R, seq) ==
    IF R = <<>> THEN 1
    ELSE (CHOOSE n \in {R[i].id : i \in DOMAIN R} :
              \A i \in DOMAIN R : R[i].id <= n) + 1

\* nextval of the sequence behind `id SERIAL PRIMARY KEY' (main.py:134)
nextval(R, seq) == seq + 1

\* a DELETE that takes every report about the user of the report named
remove_reports_of_same_user(R, report_id, fail) ==
    IF fail THEN R
    ELSE SelectSeq(R, LAMBDA r : \A i \in DOMAIN R :
                                    R[i].id = report_id => R[i].user_id # r.user_id)

\* remove_scammer_report (main.py:352-362)
remove_scammer_report(R, report_id, fail) ==
    IF fail THEN R
    ELSE SelectSeq(R, LAMBDA r : r.id # report_id)

\* get_all_scammers sorted by ascending count
get_all_scammers_ascending(R, fail) ==
    IF fail THEN {<<>>}
    ELSE LET reported == {R[i].user_id : i \in DOMAIN R}
             report_count(u) == Len(SelectSeq(R, LAMBDA r : r.user_id = u))
         IN  { [i \in DOMAIN s |-> <<s[i], report_count(s[i])>>] :
                 s \in {o \in Orderings(reported) :
                           \A i, j \in DOMAIN o :
                               i < j => report_count(o[i]) <= report_count(o[j])} }

\* get_all_scammers (main.py:376-391): the results the SELECT may return, as
\* <<user_id, report_count>> rows.  ORDER BY report_count DESC is its only
\* sort key: the order of users of equal count is left open.
get_all_scammers(R, fail) ==
    IF fail THEN {<<>>}
    ELSE LET reported == {R[i].user_id : i \in DOMAIN R}
             report_count(u) == Len(SelectSeq(R, LAMBDA r : r.user_id = u))
         IN  { [i \in DOMAIN s |-> <<s[i], report_count(s[i])>>] :
                 s \in {o \in Orderings(reported) :
                           \A i, j \in DOMAIN o :
                               i < j => report_count(o[i]) >= report_count(o[j])} }

\* is_reported_scammer (main.py:393-405)
is_reported_scammer(R, user_id, fail) ==
    IF fail THEN FALSE
    ELSE Len(SelectSeq(R, LAMBDA r : r.user_id = user_id)) > 0

\* a DELETE that selects by reporter_id
clear_reports_by_reporter(R, user_id, fail) ==
    IF fail THEN R
    ELSE SelectSeq(R, LAMBDA r : r.reporter_id # user_id)

\* clear_all_scammer_reports (main.py:364-374)
clear_all_scammer_reports(R, user_id, fail) ==
    IF fail THEN R
    ELSE SelectSeq(R, LAMBDA r : r.user_id # user_id)

\* is_blacklisted (main.py:412-424)
is_blacklisted(U, user_id, fail) ==
    IF fail THEN FALSE
    ELSE IF user_id \in DOMAIN U THEN U[user_id].is_blacklisted ELSE FALSE

\* add_to_blacklist whose conflicting INSERT does nothing
add_to_blacklist_insert_only(U, user_id, fail) ==
    IF fail THEN U
    ELSE IF user_id \in DOMAIN U
         THEN U
         ELSE Upsert(U, user_id, [reputation |-> 0, is_blacklisted |-> TRUE])

\* add_to_blacklist (main.py:426-438); reputation defaults to 0 (main.py:86)
add_to_blacklist(U, user_id, fail) ==
    IF fail THEN U
    ELSE IF user_id \in DOMAIN U
         THEN [U EXCEPT ![user_id].is_blacklisted = TRUE]
         ELSE Upsert(U, user_id, [reputation |-> 0, is_blacklisted |-> TRUE])

\* remove_from_blacklist (main.py:440-449)
remove_from_blacklist(U, user_id, fail) ==
    IF fail THEN U
    ELSE IF user_id \in DOMAIN U
         THEN [U EXCEPT ![user_id].is_blacklisted = FALSE]
         ELSE U

\* get_blacklist (main.py:451-463), as a set
get_blacklist(U, fail) ==
    IF fail THEN {} ELSE {u \in DOMAIN U : U[u].is_blacklisted}

\* can_use_dummy that counts the row whatever its usage_date
can_use_dummy_any_date(D, user_id, today, fail) ==
    IF fail THEN <<TRUE, DUMMY_PER_DAY>>
    ELSE IF user_id \notin DOMAIN D THEN <<TRUE, DUMMY_PER_DAY>>
    ELSE LET remaining == DUMMY_PER_DAY - D[user_id].count
         IN  <<remaining > 0, remaining>>

\* can_use_dummy (main.py:469-494): <<can_use, remaining>>; `today' is the
\* bot's own date, datetime.utcnow().date()
can_use_dummy(D, user_id, today, fail) ==
    IF fail THEN <<TRUE, DUMMY_PER_DAY>>
    ELSE IF user_id \notin DOMAIN D THEN <<TRUE, DUMMY_PER_DAY>>
    ELSE IF D[user_id].usage_date # today THEN <<TRUE, DUMMY_PER_DAY>>
    ELSE LET remaining == DUMMY_PER_DAY - D[user_id].count
         IN  <<remaining > 0, remaining>>

\* use_dummy whose UPDATE has no WHERE of its own: every row of the current
\* date is counted up
use_dummy_for_everyone(D, user_id, current_date, fail) ==
    IF fail THEN D
    ELSE [k \in DOMAIN D \cup {user_id} |->
            IF k \in DOMAIN D /\ D[k].usage_date = current_date
            THEN [usage_date |-> current_date, count |-> D[k].count + 1]
            ELSE IF k = user_id THEN [usage_date |-> current_date, count |-> 1]
            ELSE D[k]]

\* use_dummy whose CASE always takes the count + 1 branch
use_dummy_always_increments(D, user_id, current_date, fail) ==
    IF fail THEN D
    ELSE IF user_id \in DOMAIN D
         THEN Upsert(D, user_id,
                     [usage_date |-> current_date, count |-> D[user_id].count + 1])
         ELSE Upsert(D, user_id, [usage_date |-> current_date, count |-> 1])

\* use_dummy (main.py:496-514): `current_date' is the server's CURRENT_DATE
use_dummy(D, user_id, current_date, fail) ==
    IF fail THEN D
    ELSE IF user_id \in DOMAIN D
         THEN Upsert(D, user_id,
                     [usage_date |-> current_date,
                      count |-> IF D[user_id].usage_date = current_date
                                THEN D[user_id].count + 1
                                ELSE 1])
         ELSE Upsert(D, user_id, [usage_date |-> current_date, count |-> 1])

\* an INSERT with target and helper in each other's column
add_helpvouch_swapped(H, target_id, helper_id, amount, ts, fail) ==
    IF fail THEN H
    ELSE Append(H, [target_id |-> helper_id, helper_id |-> target_id,
                    amount |-> amount, created_at |-> ts])

\* add_helpvouch (main.py:520-530)
add_helpvouch(H, target_id, helper_id, amount, ts, fail) ==
    IF fail THEN H
    ELSE Append(H, [target_id |-> target_id, helper_id |-> helper_id,
                    amount |-> amount, created_at |-> ts])

(***************************************************************************)
(* Command handlers.  `fail' is the set of the handler's SQL statements    *)
(* that raise if they are run.  A handler answers with an outcome, the     *)
(* numbers its message shows, and the statements whose error was logged.   *)
(***************************************************************************)
Faults(stmts) == {S \in SUBSET stmts : Cardinality(S) <= MaxFaults}

NoReply == [cmd |-> "none", author |-> "none", member |-> "none",
            outcome |-> "none", value |-> <<>>, errors |-> {}, reaction |-> {}]

Answer(cmd, author, member, outcome, value, errors) ==
    reply' = [cmd |-> cmd, author |-> author, member |-> member,
              outcome |-> outcome, value |-> value, errors |-> errors,
              reaction |-> {}]

\* a reaction_add event: who reacted, with what, on which message
Reaction(user, emoji, msg_id) == [user |-> user, emoji |-> emoji, msg_id |-> msg_id]

\* the answer of a command to a reaction it was handed
AnswerReaction(reaction, cmd, author, member, outcome, value, errors) ==
    reply' = [cmd |-> cmd, author |-> author, member |-> member,
              outcome |-> outcome, value |-> value, errors |-> errors,
              reaction |-> {reaction}]

\* format_time (main.py:560-565): the minutes and seconds shown
format_time(seconds) == <<seconds \div 60, seconds % 60>>

vouch_stmts == {"is_blacklisted", "get_vouch_cooldown", "add_reputation",
                "add_vouch.vouches", "add_vouch.cooldowns", "get_reputation"}

\* the statement of a try block that raises first, 0 if none does
FailAt(fail, stmts) ==
    IF \E i \in 1..Len(stmts) : stmts[i] \in fail
    THEN CHOOSE i \in 1..Len(stmts) :
            /\ stmts[i] \in fail
            /\ \A j \in 1..(i - 1) : stmts[j] \notin fail
    ELSE 0

\* vouch_cmd (main.py:816-922)
vouch_cmd(author, member, reason, fail) ==
    /\ Len(vouches) < MaxVouches
    /\ UNCHANGED <<clockVars, prompts, view>>
    /\ LET blacklisted == is_blacklisted(users, author, "is_blacklisted" \in fail)
           cooldown == get_vouch_cooldown(cooldowns, author, now,
                                          "get_vouch_cooldown" \in fail)
           e1 == fail \cap {"is_blacklisted"}
           e2 == fail \cap {"is_blacklisted", "get_vouch_cooldown"}
       IN
       IF blacklisted
       THEN Answer("vouch", author, member, "blacklisted", <<>>, e1)
            /\ UNCHANGED dbVars
       ELSE IF reason_missing(reason, VOUCH_MIN_REASON)
       THEN Answer("vouch", author, member, "reason_required", <<>>, e1)
            /\ UNCHANGED dbVars
       ELSE IF member = author
       THEN Answer("vouch", author, member, "self", <<>>, e1)
            /\ UNCHANGED dbVars
       ELSE IF member \in Bots
       THEN Answer("vouch", author, member, "bot", <<>>, e1)
            /\ UNCHANGED dbVars
       ELSE IF cooldown # <<>>
       THEN Answer("vouch", author, member, "cooldown", format_time(cooldown[1]), e2)
            /\ UNCHANGED dbVars
       ELSE LET add_raises == add_reputation_raises(users, member, VOUCH_REP_AMOUNT,
                                                    "add_reputation" \in fail)
                failAt == FailAt(fail, <<"add_vouch.vouches", "add_vouch.cooldowns">>)
                added == add_vouch(vouches, cooldowns, member, author, reason, now, failAt)
                users1 == add_reputation(users, member, VOUCH_REP_AMOUNT,
                                         "add_reputation" \in fail)
                new_rep == get_reputation(users1, member, "get_reputation" \in fail)
                errors == e2 \cup (IF add_raises THEN {"add_reputation"} ELSE {})
                             \cup (IF failAt = 1 THEN {"add_vouch.vouches"} ELSE {})
                             \cup (IF failAt = 2 THEN {"add_vouch.cooldowns"} ELSE {})
                             \cup (fail \cap {"get_reputation"})
            IN  /\ users' = users1
                /\ vouches' = added[1]
                /\ cooldowns' = added[2]
                /\ UNCHANGED <<dummy_usage, helpvouches, scammer_reports,
                               scammer_reports_id_seq>>
                /\ Answer("vouch", author, member, "ok", <<new_rep>>, errors)

dummy_stmts == {"can_use_dummy", "remove_reputation", "use_dummy"}

\* dummy_cmd that records the use right after the quota check, before the
\* self and bot validations
dummy_cmd_consumes_first(author, member, fail) ==
    /\ author \in DOMAIN dummy_usage => dummy_usage[author].count < MaxCount
    /\ UNCHANGED <<clockVars, prompts, view, vouches, cooldowns, helpvouches,
                   scammer_reports, scammer_reports_id_seq>>
    /\ LET checked == can_use_dummy(dummy_usage, author, utcnow_date, FALSE)
       IN  IF ~checked[1]
           THEN /\ UNCHANGED <<users, dummy_usage>>
                /\ Answer("dummy", author, member, "limit", <<checked[2]>>, {})
           ELSE /\ dummy_usage' = use_dummy(dummy_usage, author, CURRENT_DATE, FALSE)
                /\ IF member = author \/ member \in Bots
                   THEN /\ UNCHANGED users
                        /\ Answer("dummy", author, member,
                                  IF member = author THEN "self" ELSE "bot", <<>>, {})
                   ELSE /\ users' = remove_reputation(users, member, DUMMY_REP_REMOVE, FALSE)
                        /\ Answer("dummy", author, member, "ok", <<checked[2] - 1>>, {})

\* dummy_cmd (main.py:966-1027)
dummy_cmd(author, member, fail) ==
    /\ author \in DOMAIN dummy_usage => dummy_usage[author].count < MaxCount
    /\ UNCHANGED <<clockVars, prompts, view>>
    /\ LET checked == can_use_dummy(dummy_usage, author, utcnow_date,
                                    "can_use_dummy" \in fail)
           can_use == checked[1]
           remaining == checked[2]
           e1 == fail \cap {"can_use_dummy"}
       IN
       IF ~can_use
       THEN Answer("dummy", author, member, "limit", <<remaining>>, e1)
            /\ UNCHANGED dbVars
       ELSE IF member = author
       THEN Answer("dummy", author, member, "self", <<>>, e1)
            /\ UNCHANGED dbVars
       ELSE IF member \in Bots
       THEN Answer("dummy", author, member, "bot", <<>>, e1)
            /\ UNCHANGED dbVars
       ELSE /\ users' = remove_reputation(users, member, DUMMY_REP_REMOVE,
                                          "remove_reputation" \in fail)
            /\ dummy_usage' = use_dummy(dummy_usage, author, CURRENT_DATE,
                                        "use_dummy" \in fail)
            /\ UNCHANGED <<vouches, cooldowns, helpvouches, scammer_reports,
                           scammer_reports_id_seq>>
            /\ Answer("dummy", author, member, "ok", <<remaining - 1>>, fail)

helpvouch_stmts == {"add_reputation", "add_helpvouch"}

\* helpvouch_cmd (main.py:1033-1089)
helpvouch_cmd(author, member, fail) ==
    /\ Len(helpvouches) < MaxHelpvouches
    /\ UNCHANGED <<clockVars, prompts, view>>
    /\ IF member = author
       THEN Answer("helpvouch", author, member, "self", <<>>, {})
            /\ UNCHANGED dbVars
       ELSE IF member \in Bots
       THEN Answer("helpvouch", author, member, "bot", <<>>, {})
            /\ UNCHANGED dbVars
       ELSE LET is_staff == has_staff_role(author)
                rep_amount == IF is_staff THEN HELPVOUCH_REP_STAFF
                              ELSE HELPVOUCH_REP_MEMBER
                add_raises == add_reputation_raises(users, member, rep_amount,
                                                    "add_reputation" \in fail)
            IN  /\ users' = add_reputation(users, member, rep_amount,
                                           "add_reputation" \in fail)
                /\ helpvouches' = add_helpvouch(helpvouches, member, author, rep_amount,
                                                now, "add_helpvouch" \in fail)
                /\ UNCHANGED <<vouches, cooldowns, dummy_usage, scammer_reports,
                               scammer_reports_id_seq>>
                /\ Answer("helpvouch", author, member, "ok", <<rep_amount>>,
                          (fail \cap {"add_helpvouch"})
                              \cup (IF add_raises THEN {"add_reputation"} ELSE {}))

blacklist_stmts == {"is_blacklisted", "add_to_blacklist", "remove_from_blacklist"}

\* repblacklist_cmd (main.py:1095-1125)
repblacklist_cmd(author, member, fail) ==
    /\ UNCHANGED <<clockVars, prompts, view>>
    /\ IF ~is_owner(author)
       THEN Answer("repblacklist", author, member, "owner_only", <<>>, {})
            /\ UNCHANGED dbVars
       ELSE IF is_blacklisted(users, member, "is_blacklisted" \in fail)
       THEN /\ users' = remove_from_blacklist(users, member,
                                               "remove_from_blacklist" \in fail)
            /\ UNCHANGED <<vouches, cooldowns, dummy_usage, helpvouches,
                           scammer_reports, scammer_reports_id_seq>>
            /\ Answer("repblacklist", author, member, "unblacklisted", <<>>,
                      fail \cap {"is_blacklisted", "remove_from_blacklist"})
       ELSE /\ users' = add_to_blacklist(users, member, "add_to_blacklist" \in fail)
            /\ UNCHANGED <<vouches, cooldowns, dummy_usage, helpvouches,
                           scammer_reports, scammer_reports_id_seq>>
            /\ Answer("repblacklist", author, member, "blacklisted", <<>>,
                      fail \cap {"is_blacklisted", "add_to_blacklist"})

viewblacklist_stmts == {"get_blacklist"}

\* viewblacklist_cmd (main.py:1127-1164): the users listed and the total
viewblacklist_cmd(author, fail) ==
    /\ UNCHANGED <<clockVars, dbVars, prompts, view>>
    /\ IF ~is_owner(author)
       THEN Answer("viewblacklist", author, author, "owner_only", <<>>, {})
       ELSE LET blacklist == get_blacklist(users, "get_blacklist" \in fail)
            IN  IF blacklist = {}
                THEN Answer("viewblacklist", author, author, "empty", <<>>, fail)
                ELSE Answer("viewblacklist", author, author, "ok",
                            <<blacklist, Cardinality(blacklist)>>, fail)

addrep_stmts == {"add_reputation"}

\* addrep_cmd (main.py:1556-1580)
addrep_cmd(author, member, amount, fail) ==
    /\ UNCHANGED <<clockVars, prompts, view>>
    /\ IF ~is_owner(author)
       THEN Answer("addrep", author, member, "owner_only", <<>>, {})
            /\ UNCHANGED dbVars
       ELSE IF amount <= 0
       THEN Answer("addrep", author, member, "bad_amount", <<>>, {})
            /\ UNCHANGED dbVars
       ELSE /\ users' = add_reputation(users, member, amount, "add_reputation" \in fail)
            /\ UNCHANGED <<vouches, cooldowns, dummy_usage, helpvouches,
                           scammer_reports, scammer_reports_id_seq>>
            /\ Answer("addrep", author, member, "ok", <<amount>>,
                      IF add_reputation_raises(users, member, amount,
                                               "add_reputation" \in fail)
                      THEN {"add_reputation"} ELSE {})

removerep_stmts == {"remove_reputation"}

\* removerep_cmd (main.py:1582-1606)
removerep_cmd(author, member, amount, fail) ==
    /\ UNCHANGED <<clockVars, prompts, view>>
    /\ IF ~is_owner(author)
       THEN Answer("removerep", author, member, "owner_only", <<>>, {})
            /\ UNCHANGED dbVars
       ELSE IF amount <= 0
       THEN Answer("removerep", author, member, "bad_amount", <<>>, {})
            /\ UNCHANGED dbVars
       ELSE /\ users' = remove_reputation(users, member, amount,
                                          "remove_reputation" \in fail)
            /\ UNCHANGED <<vouches, cooldowns, dummy_usage, helpvouches,
                           scammer_reports, scammer_reports_id_seq>>
            /\ Answer("removerep", author, member, "ok", <<amount>>, fail)

setrep_stmts == {"set_reputation"}

\* setrep_cmd (main.py:1608-1631)
setrep_cmd(author, member, amount, fail) ==
    /\ UNCHANGED <<clockVars, prompts, view>>
    /\ IF ~is_owner(author)
       THEN Answer("setrep", author, member, "owner_only", <<>>, {})
            /\ UNCHANGED dbVars
       ELSE IF amount < 0
       THEN Answer("setrep", author, member, "bad_amount", <<>>, {})
            /\ UNCHANGED dbVars
       ELSE /\ users' = set_reputation(users, member, amount, "set_reputation" \in fail)
            /\ UNCHANGED <<vouches, cooldowns, dummy_usage, helpvouches,
                           scammer_reports, scammer_reports_id_seq>>
            /\ Answer("setrep", author, member, "ok", <<amount>>,
                      IF set_reputation_raises(amount, "set_reputation" \in fail)
                      THEN {"set_reputation"} ELSE {})

\* "add_scammer_report" raises before the INSERT draws an id from the
\* sequence, "add_scammer_report.insert" after it: a drawn id is not given back
applyscammer_stmts == {"add_scammer_report", "add_scammer_report.insert",
                       "get_scammer_reports"}

\* applyscammer_cmd (main.py:1188-1252), behind the is_staff check
\* (main.py:1174-1186)
applyscammer_cmd(author, member, reason, fail) ==
    /\ scammer_reports_id_seq < MaxReportIds
    /\ UNCHANGED <<clockVars, prompts, view>>
    /\ IF ~has_staff_role(author)
       THEN Answer("applyscammer", author, member, "staff_only", <<>>, {})
            /\ UNCHANGED dbVars
       ELSE IF reason_missing(reason, SCAM_MIN_REASON)
       THEN Answer("applyscammer", author, member, "reason_required", <<>>, {})
            /\ UNCHANGED dbVars
       ELSE IF member = author
       THEN Answer("applyscammer", author, member, "self", <<>>, {})
            /\ UNCHANGED dbVars
       ELSE IF member \in Bots
       THEN Answer("applyscammer", author, member, "bot", <<>>, {})
            /\ UNCHANGED dbVars
       ELSE LET insert_raises == fail \cap {"add_scammer_report",
                                            "add_scammer_report.insert"} # {}
                id == nextval(scammer_reports, scammer_reports_id_seq)
                reports1 == add_scammer_report(scammer_reports, id, member, author,
                                               reason, now, insert_raises)
                reports == get_scammer_reports(reports1, member,
                                               "get_scammer_reports" \in fail)
            IN  /\ scammer_reports' = reports1
                /\ scammer_reports_id_seq' =
                       IF "add_scammer_report" \in fail THEN scammer_reports_id_seq
                       ELSE id
                /\ UNCHANGED <<users, vouches, cooldowns, dummy_usage, helpvouches>>
                   \* reports[0]['id'] of an empty list raises IndexError, which
                   \* on_command_error answers (main.py:1842-1844)
                /\ IF reports = <<>>
                   THEN Answer("applyscammer", author, member, "error", <<>>, fail)
                   ELSE Answer("applyscammer", author, member, "ok",
                               <<Len(reports), reports[1].id>>, fail)

rank_stmts == {"get_reputation", "get_leaderboard", "get_vouch_history"}

\* the 1-based position of member in a leaderboard, 0 for None
rank_in(leaderboard, member) ==
    IF \E i \in DOMAIN leaderboard : leaderboard[i][1] = member
    THEN CHOOSE i \in DOMAIN leaderboard :
            /\ leaderboard[i][1] = member
            /\ \A j \in 1..(i - 1) : leaderboard[j][1] # member
    ELSE 0

\* rank_cmd that looks the account up with an upsert of a zero row
rank_cmd_creates_account(author, member, fail) ==
    /\ UNCHANGED <<clockVars, prompts, view, vouches, cooldowns, dummy_usage, helpvouches,
                   scammer_reports, scammer_reports_id_seq>>
    /\ users' = IF member \in DOMAIN users THEN users
                ELSE Upsert(users, member, [reputation |-> 0, is_blacklisted |-> FALSE])
    /\ Answer("rank", author, member, "ok",
              <<get_reputation(users', member, FALSE), 0, 0, <<>> >>, {})

\* rank_cmd (main.py:742-781): the reputation, the rank, the number of ranked
\* users and the last five vouches shown
rank_cmd(author, member, fail) ==
    /\ UNCHANGED <<clockVars, dbVars, prompts, view>>
    /\ \E leaderboard \in get_leaderboard(users, "get_leaderboard" \in fail) :
          LET rep == get_reputation(users, member, "get_reputation" \in fail)
              recent_vouches == get_vouch_history(vouches, member, 5,
                                                  "get_vouch_history" \in fail)
          IN  Answer("rank", author, member, "ok",
                     <<rep, rank_in(leaderboard, member), Len(leaderboard),
                       recent_vouches>>, fail)

\* no LeaderboardView has been made, or the last one was deleted
NoView == <<>>

\* max and min of Python
max(a, b) == IF a >= b THEN a ELSE b
min(a, b) == IF a <= b THEN a ELSE b

\* update_buttons (main.py:606-610)
update_buttons(v) ==
    [v EXCEPT !.disabled =
        [first_page |-> v.current_page = 0,
         prev_page |-> v.current_page = 0,
         next_page |-> v.current_page = Len(v.pages) - 1,
         last_page |-> v.current_page = Len(v.pages) - 1,
         delete_message |-> v.disabled.delete_message]]

\* LeaderboardView.__init__ (main.py:598-604); finished is the state of a
\* View that has stopped dispatching its buttons
LeaderboardView(ctx_author, pages) ==
    update_buttons([author |-> ctx_author, pages |-> pages, current_page |-> 0,
                    disabled |-> [first_page |-> FALSE, prev_page |-> FALSE,
                                  next_page |-> FALSE, last_page |-> FALSE,
                                  delete_message |-> FALSE],
                    finished |-> FALSE])

\* the position label of a line (main.py:692-699): a medal for the first
\* three, the number otherwise
medal(idx) ==
    CASE idx = 1 -> <<"gold">>
      [] idx = 2 -> <<"silver">>
      [] idx = 3 -> <<"bronze">>
      [] OTHER -> <<"#", idx>>

\* leaderboard[start:end] of Python, with 0-based start and exclusive end
slice(s, start, end) == SubSeq(s, start + 1, IF end < Len(s) THEN end ELSE Len(s))

\* create_leaderboard_pages whose lines are numbered from 1 on every page
create_leaderboard_pages_page_ranks(leaderboard) ==
    IF leaderboard = <<>>
    THEN << [rankings |-> <<>>, lines |-> <<>>, footer |-> <<>>] >>
    ELSE LET total_pages == (Len(leaderboard) + LEADERBOARD_PER_PAGE - 1)
                                \div LEADERBOARD_PER_PAGE
         IN  [n \in 1..total_pages |->
                LET start_idx == (n - 1) * LEADERBOARD_PER_PAGE
                    page_data == slice(leaderboard, start_idx,
                                       start_idx + LEADERBOARD_PER_PAGE)
                IN  [rankings |-> <<start_idx + 1, start_idx + Len(page_data)>>,
                     lines |-> [k \in 1..Len(page_data) |->
                                  <<medal(k), page_data[k][1], page_data[k][2]>>],
                     footer |-> <<n, total_pages, Len(leaderboard)>>]]

\* create_leaderboard_pages (main.py:665-714): the embeds as their field
\* name "Rankings a-b", their lines <<label, user, rep>> (the user shown by
\* name, or as "Unknown User") and their footer "Page n/total | Total: len";
\* page n of the model is page_num n - 1 of the code
create_leaderboard_pages(leaderboard) ==
    IF leaderboard = <<>>
    THEN << [rankings |-> <<>>, lines |-> <<>>, footer |-> <<>>] >>
    ELSE LET total_pages == (Len(leaderboard) + LEADERBOARD_PER_PAGE - 1)
                                \div LEADERBOARD_PER_PAGE
         IN  [n \in 1..total_pages |->
                LET start_idx == (n - 1) * LEADERBOARD_PER_PAGE
                    end_idx == start_idx + LEADERBOARD_PER_PAGE
                    page_data == slice(leaderboard, start_idx, end_idx)
                IN  [rankings |-> <<start_idx + 1, start_idx + Len(page_data)>>,
                     lines |-> [k \in 1..Len(page_data) |->
                                  <<medal(start_idx + k),
                                    page_data[k][1], page_data[k][2]>>],
                     footer |-> <<n, total_pages, Len(leaderboard)>>]]

leaderboard_stmts == {"get_leaderboard"}

\* leaderboard_cmd from the rows it has read (main.py:725-740): the rows and
\* the pages made of them; a view is made for more than one page, and the
\* model keeps the last one
show_leaderboard(author, leaderboard, errors) ==
    IF leaderboard = <<>>
    THEN /\ Answer("leaderboard", author, author, "empty", <<>>, errors)
         /\ UNCHANGED view
    ELSE LET pages == create_leaderboard_pages(leaderboard)
         IN  /\ Answer("leaderboard", author, author, "ok",
                       <<leaderboard, pages>>, errors)
             /\ IF Len(pages) = 1
                THEN UNCHANGED view
                ELSE view' = <<LeaderboardView(author, pages)>>

\* leaderboard_cmd (main.py:720-740)
leaderboard_cmd(author, fail) ==
    /\ UNCHANGED <<clockVars, dbVars, prompts>>
    /\ \E leaderboard \in get_leaderboard(users, "get_leaderboard" \in fail) :
          show_leaderboard(author, leaderboard, fail)

\* a press of a button of the view by a user other than the command's
\* author (main.py:614-616)
not_author(button, user) ==
    /\ UNCHANGED view
    /\ Answer(button, user, view[1].author, "not_author", <<>>, {})

\* what a page button does once it has set current_page (main.py:618-619)
turn_page(button, user, current_page) ==
    /\ view' = <<update_buttons([view[1] EXCEPT !.current_page = current_page])>>
    /\ Answer(button, user, view[1].author, "ok", <<current_page>>, {})

\* first_page (main.py:612-619)
first_page(user) ==
    /\ view # NoView /\ ~view[1].finished
    /\ UNCHANGED <<clockVars, dbVars, prompts>>
    /\ IF user # view[1].author
       THEN not_author("first_page", user)
       ELSE turn_page("first_page", user, 0)

\* prev_page that just steps back
prev_page_unclamped(user) ==
    /\ view # NoView /\ ~view[1].finished
    /\ UNCHANGED <<clockVars, dbVars, prompts>>
    /\ IF user # view[1].author
       THEN not_author("prev_page", user)
       ELSE turn_page("prev_page", user, view[1].current_page - 1)

\* prev_page (main.py:621-628)
prev_page(user) ==
    /\ view # NoView /\ ~view[1].finished
    /\ UNCHANGED <<clockVars, dbVars, prompts>>
    /\ IF user # view[1].author
       THEN not_author("prev_page", user)
       ELSE turn_page("prev_page", user, max(0, view[1].current_page - 1))

\* next_page (main.py:630-637)
next_page(user) ==
    /\ view # NoView /\ ~view[1].finished
    /\ UNCHANGED <<clockVars, dbVars, prompts>>
    /\ IF user # view[1].author
       THEN not_author("next_page", user)
       ELSE turn_page("next_page", user,
                      min(Len(view[1].pages) - 1, view[1].current_page + 1))

\* last_page (main.py:639-646)
last_page(user) ==
    /\ view # NoView /\ ~view[1].finished
    /\ UNCHANGED <<clockVars, dbVars, prompts>>
    /\ IF user # view[1].author
       THEN not_author("last_page", user)
       ELSE turn_page("last_page", user, Len(view[1].pages) - 1)

\* delete_message (main.py:648-654): the message is deleted and the view
\* stopped
delete_message(user) ==
    /\ view # NoView /\ ~view[1].finished
    /\ UNCHANGED <<clockVars, dbVars, prompts>>
    /\ IF user # view[1].author
       THEN not_author("delete_message", user)
       ELSE /\ view' = NoView
            /\ Answer("delete_message", user, view[1].author, "ok", <<>>, {})

\* on_timeout (main.py:656-663), 180 seconds after the last press: every
\* button is disabled and the view dispatches no more
on_timeout ==
    /\ view # NoView /\ ~view[1].finished
    /\ UNCHANGED <<clockVars, dbVars, prompts>>
    /\ view' = <<[view[1] EXCEPT !.finished = TRUE,
                                 !.disabled = [b \in DOMAIN view[1].disabled |-> TRUE]]>>
    /\ Answer("on_timeout", "none", view[1].author, "ok", <<>>, {})

scam_stmts == {"get_scammer_reports"}

\* scam_cmd (main.py:1258-1307): the ids of the reports shown, in their order
scam_cmd(author, member, fail) ==
    /\ UNCHANGED <<clockVars, dbVars, prompts, view>>
    /\ LET reports == get_scammer_reports(scammer_reports, member,
                                          "get_scammer_reports" \in fail)
       IN  IF reports = <<>>
           THEN Answer("scam", author, member, "no_reports", <<>>, fail)
           ELSE Answer("scam", author, member, "ok",
                       [i \in DOMAIN reports |-> reports[i].id], fail)

\* the report_id argument of removescammer: <<>> when it is not given
NoReportId == <<>>
ReportIdArgs == {NoReportId} \cup {<<n>> : n \in 1..(MaxReportIds + 1)}

removescammer_stmts == {"get_scammer_reports", "remove_scammer_report"}

\* removescammer_cmd (main.py:1313-1390), behind the is_staff check
\* (main.py:1174-1186)
removescammer_cmd(author, member, report_id, fail) ==
    /\ UNCHANGED <<clockVars, prompts, view>>
    /\ IF ~has_staff_role(author)
       THEN Answer("removescammer", author, member, "staff_only", <<>>, {})
            /\ UNCHANGED dbVars
       ELSE LET reports == get_scammer_reports(scammer_reports, member,
                                               "get_scammer_reports" \in fail)
                e1 == fail \cap {"get_scammer_reports"}
            IN  IF reports = <<>>
                THEN Answer("removescammer", author, member, "no_reports", <<>>, e1)
                     /\ UNCHANGED dbVars
                ELSE IF report_id = NoReportId
                THEN Answer("removescammer", author, member, "list",
                            [i \in DOMAIN reports |-> reports[i].id], e1)
                     /\ UNCHANGED dbVars
                ELSE IF ~(\E i \in DOMAIN reports : reports[i].id = report_id[1])
                THEN Answer("removescammer", author, member, "invalid_id",
                            [i \in DOMAIN reports |-> reports[i].id], e1)
                     /\ UNCHANGED dbVars
                ELSE /\ scammer_reports' =
                            remove_scammer_report(scammer_reports, report_id[1],
                                                  "remove_scammer_report" \in fail)
                     /\ UNCHANGED <<users, vouches, cooldowns, dummy_usage,
                                    helpvouches, scammer_reports_id_seq>>
                     /\ Answer("removescammer", author, member, "ok",
                               <<report_id[1], Len(reports) - 1>>, fail)

listscammers_stmts == {"get_all_scammers"}

\* listscammers_cmd (main.py:1479-1549): the first 25 rows and the total
listscammers_cmd(author, fail) ==
    /\ UNCHANGED <<clockVars, dbVars, prompts, view>>
    /\ \E scammers \in get_all_scammers(scammer_reports, "get_all_scammers" \in fail) :
          IF scammers = <<>>
          THEN Answer("listscammers", author, author, "empty", <<>>, fail)
          ELSE Answer("listscammers", author, author, "ok",
                      <<Limit(scammers, 25), Len(scammers)>>, fail)

vouch_history_stmts == {"get_vouch_history", "get_reputation"}

\* vouch_history_cmd (main.py:924-960): the vouches shown and the total in
\* the footer
vouch_history_cmd(author, member, fail) ==
    /\ UNCHANGED <<clockVars, dbVars, prompts, view>>
    /\ LET shown == get_vouch_history(vouches, member, 10,
                                       "get_vouch_history" \in fail)
           e1 == fail \cap {"get_vouch_history"}
       IN  IF shown = <<>>
           THEN Answer("vouchhistory", author, member, "empty", <<>>, e1)
           ELSE Answer("vouchhistory", author, member, "ok",
                       <<shown, get_reputation(users, member, "get_reputation" \in fail)>>,
                       fail)

Emojis == {"confirm", "cancel", "other"}

\* the messages a reaction can be put on: the prompts and one other message
MsgIds == 1..(MaxPrompts + 1)

\* the id of the message a new prompt is sent as
FreeMsgIds == (1..MaxPrompts) \ {p.msg_id : p \in prompts}

clearrep_read_stmts == {"get_reputation", "get_vouch_history"}

\* clearrep_cmd up to its wait for a reaction (main.py:1633-1661)
clearrep_cmd(author, member, fail) ==
    /\ FreeMsgIds # {}
    /\ UNCHANGED <<clockVars, dbVars>>
    /\ IF ~is_owner(author)
       THEN Answer("clearrep", author, member, "owner_only", <<>>, {})
            /\ UNCHANGED <<prompts, view>>
       ELSE LET old_rep == get_reputation(users, member, "get_reputation" \in fail)
                vouch_count == Len(get_vouch_history(vouches, member, 999,
                                                     "get_vouch_history" \in fail))
                msg_id == CHOOSE m \in FreeMsgIds : \A k \in FreeMsgIds : m <= k
            IN  /\ UNCHANGED view
                /\ prompts' = prompts \cup
                       {[msg_id |-> msg_id, cmd |-> "clearrep", author |-> author,
                         member |-> member, old_rep |-> old_rep,
                         vouch_count |-> vouch_count]}
                /\ Answer("clearrep", author, member, "prompt",
                          <<old_rep, vouch_count>>, fail)

\* a check that takes the reaction of any user
check_any_user(p, user, emoji, msg_id) ==
    /\ emoji \in {"confirm", "cancel"}
    /\ msg_id = p.msg_id

\* check (main.py:1657-1658): whether a reaction ends the wait of prompt p
check(p, user, emoji, msg_id) ==
    /\ user = p.author
    /\ emoji \in {"confirm", "cancel"}
    /\ msg_id = p.msg_id

clearrep_write_order == <<"clear_reputation.users", "clear_reputation.vouches",
                          "clear_reputation.helpvouches">>
clearrep_write_stmts == {clearrep_write_order[i] : i \in 1..Len(clearrep_write_order)}

\* clearrep_cmd from the reaction it waited for (main.py:1661-1684)
clearrep_reaction(p, user, emoji, msg_id, fail) ==
    /\ p \in prompts
    /\ p.cmd = "clearrep"
    /\ check(p, user, emoji, msg_id)
    /\ prompts' = prompts \ {p}
    /\ UNCHANGED view
    /\ UNCHANGED clockVars
    /\ IF emoji = "confirm"
       THEN LET failAt == FailAt(fail, clearrep_write_order)
                cleared == clear_reputation(users, vouches, helpvouches, p.member, failAt)
            IN  /\ users' = cleared[1]
                /\ vouches' = cleared[2]
                /\ helpvouches' = cleared[3]
                /\ UNCHANGED <<cooldowns, dummy_usage, scammer_reports,
                               scammer_reports_id_seq>>
                /\ AnswerReaction(Reaction(user, emoji, msg_id),
                                  "clearrep", p.author, p.member, "cleared",
                                  <<p.old_rep, p.vouch_count>>,
                                  IF failAt = 0 THEN {}
                                  ELSE {clearrep_write_order[failAt]})
       ELSE /\ UNCHANGED dbVars
            /\ AnswerReaction(Reaction(user, emoji, msg_id),
                              "clearrep", p.author, p.member, "cancelled", <<>>, {})

\* a reaction that check refuses: the wait goes on (main.py:1657-1661)
ignored_reaction(p, user, emoji, msg_id) ==
    /\ p \in prompts
    /\ ~check(p, user, emoji, msg_id)
    /\ UNCHANGED <<clockVars, dbVars, prompts, view>>
    /\ AnswerReaction(Reaction(user, emoji, msg_id),
                      p.cmd, p.author, p.member, "waiting", <<>>, {})

\* a wait without a timeout: the prompt stays open
clearrep_wait_forever(p) ==
    /\ p \in prompts
    /\ p.cmd = "clearrep"
    /\ UNCHANGED <<clockVars, dbVars, prompts, view>>
    /\ Answer("clearrep", p.author, p.member, "waiting", <<>>, {})

\* asyncio.TimeoutError after 30 seconds without such a reaction
\* (main.py:1686-1693)
clearrep_timeout(p) ==
    /\ p \in prompts
    /\ p.cmd = "clearrep"
    /\ prompts' = prompts \ {p}
    /\ UNCHANGED view
    /\ UNCHANGED <<clockVars, dbVars>>
    /\ Answer("clearrep", p.author, p.member, "timeout", <<>>, {})

clearallscam_read_stmts == {"get_scammer_reports"}

\* clearallscam_cmd up to its wait for a reaction (main.py:1396-1435),
\* behind the is_staff check (main.py:1174-1186)
clearallscam_cmd(author, member, fail) ==
    /\ FreeMsgIds # {}
    /\ UNCHANGED <<clockVars, dbVars>>
    /\ IF ~has_staff_role(author)
       THEN Answer("clearallscam", author, member, "staff_only", <<>>, {})
            /\ UNCHANGED <<prompts, view>>
       ELSE LET reports == get_scammer_reports(scammer_reports, member,
                                               "get_scammer_reports" \in fail)
                msg_id == CHOOSE m \in FreeMsgIds : \A k \in FreeMsgIds : m <= k
            IN  IF reports = <<>>
                THEN Answer("clearallscam", author, member, "no_reports", <<>>, fail)
                     /\ UNCHANGED <<prompts, view>>
                ELSE /\ UNCHANGED view
                     /\ prompts' = prompts \cup
                            {[msg_id |-> msg_id, cmd |-> "clearallscam",
                              author |-> author, member |-> member,
                              report_count |-> Len(reports)]}
                     /\ Answer("clearallscam", author, member, "prompt",
                               <<Len(reports)>>, fail)

clearallscam_write_stmts == {"clear_all_scammer_reports"}

\* clearallscam_cmd from the reaction it waited for (main.py:1435-1459); its
\* check (main.py:1431-1432) is the one of clearrep_cmd
clearallscam_reaction(p, user, emoji, msg_id, fail) ==
    /\ p \in prompts
    /\ p.cmd = "clearallscam"
    /\ check(p, user, emoji, msg_id)
    /\ prompts' = prompts \ {p}
    /\ UNCHANGED view
    /\ UNCHANGED clockVars
    /\ IF emoji = "confirm"
       THEN /\ scammer_reports' =
                   clear_all_scammer_reports(scammer_reports, p.member,
                                             "clear_all_scammer_reports" \in fail)
            /\ UNCHANGED <<users, vouches, cooldowns, dummy_usage, helpvouches,
                           scammer_reports_id_seq>>
            /\ AnswerReaction(Reaction(user, emoji, msg_id),
                              "clearallscam", p.author, p.member, "cleared",
                              <<p.report_count>>, fail)
       ELSE /\ UNCHANGED dbVars
            /\ AnswerReaction(Reaction(user, emoji, msg_id),
                              "clearallscam", p.author, p.member, "cancelled", <<>>, {})

\* asyncio.TimeoutError after 30 seconds without such a reaction
\* (main.py:1461-1468)
clearallscam_timeout(p) ==
    /\ p \in prompts
    /\ p.cmd = "clearallscam"
    /\ prompts' = prompts \ {p}
    /\ UNCHANGED view
    /\ UNCHANGED <<clockVars, dbVars>>
    /\ Answer("clearallscam", p.author, p.member, "timeout", <<>>, {})

(***************************************************************************)
(* The clocks                                                              *)
(***************************************************************************)
\* time passes on the server
Tick ==
    /\ now < StartTime + MaxTicks * TickStep
    /\ now' = now + TickStep
    /\ reply' = NoReply
    /\ UNCHANGED <<dbVars, app_skew, prompts, view>>

\* the bot's clock drifts against the server's
ClockSkew ==
    /\ \E d \in Skews \ {app_skew} : app_skew' = d
    /\ reply' = NoReply
    /\ UNCHANGED <<dbVars, now, prompts, view>>

(***************************************************************************)
(* The system                                                              *)
(***************************************************************************)
EmptyTable == [k \in {} |-> 0]

\* the tables as init_database creates them (main.py:77-147)
Init ==
    /\ users = EmptyTable
    /\ vouches = <<>>
    /\ cooldowns = EmptyTable
    /\ dummy_usage = EmptyTable
    /\ helpvouches = <<>>
    /\ scammer_reports = <<>>
    /\ scammer_reports_id_seq = 0
    /\ now = StartTime
    /\ app_skew = 0
    /\ prompts = {}
    /\ view = NoView
    /\ reply = NoReply

\* no statement raises
NoFault == {{}}

Vouch(authors, members, reasons, faults) ==
    \E a \in authors, m \in members, r \in reasons, f \in faults :
        vouch_cmd(a, m, r, f)
Dummy(authors, members, faults) ==
    \E a \in authors, m \in members, f \in faults : dummy_cmd(a, m, f)
Helpvouch(authors, members, faults) ==
    \E a \in authors, m \in members, f \in faults : helpvouch_cmd(a, m, f)
Repblacklist(authors, members, faults) ==
    \E a \in authors, m \in members, f \in faults : repblacklist_cmd(a, m, f)
Viewblacklist(authors, faults) ==
    \E a \in authors, f \in faults : viewblacklist_cmd(a, f)
Addrep(authors, members, amounts, faults) ==
    \E a \in authors, m \in members, n \in amounts, f \in faults :
        addrep_cmd(a, m, n, f)
Removerep(authors, members, amounts, faults) ==
    \E a \in authors, m \in members, n \in amounts, f \in faults :
        removerep_cmd(a, m, n, f)
Setrep(authors, members, amounts, faults) ==
    \E a \in authors, m \in members, n \in amounts, f \in faults :
        setrep_cmd(a, m, n, f)
Applyscammer(authors, members, reasons, faults) ==
    \E a \in authors, m \in members, r \in reasons, f \in faults :
        applyscammer_cmd(a, m, r, f)
Clearrep(authors, members, faults) ==
    \E a \in authors, m \in members, f \in faults : clearrep_cmd(a, m, f)
ClearrepReaction(reactors, faults) ==
    \E p \in prompts, u \in reactors, e \in Emojis, k \in MsgIds, f \in faults :
        clearrep_reaction(p, u, e, k, f)
IgnoredReaction(reactors) ==
    \E p \in prompts, u \in reactors, e \in Emojis, k \in MsgIds :
        ignored_reaction(p, u, e, k)
ClearrepTimeout == \E p \in prompts : clearrep_timeout(p)
Clearallscam(authors, members, faults) ==
    \E a \in authors, m \in members, f \in faults : clearallscam_cmd(a, m, f)
ClearallscamReaction(reactors, faults) ==
    \E p \in prompts, u \in reactors, e \in Emojis, k \in MsgIds, f \in faults :
        clearallscam_reaction(p, u, e, k, f)
ClearallscamTimeout == \E p \in prompts : clearallscam_timeout(p)

Rank(authors, members, faults) ==
    \E a \in authors, m \in members, f \in faults : rank_cmd(a, m, f)
Leaderboard(authors, faults) ==
    \E a \in authors, f \in faults : leaderboard_cmd(a, f)

\* the rows get_leaderboard returns for a table of n accounts with
\* reputation, some of them equal
ranked(n) == [i \in 1..n |-> <<1000 + i, ((n - i) \div 2) + 1>>]
Leaderboards == {ranked(n) : n \in 1..MaxEntries}

\* leaderboard_cmd once get_leaderboard has returned such rows
ShowLeaderboard(authors, leaderboards) ==
    \E a \in authors, leaderboard \in leaderboards :
        /\ UNCHANGED <<clockVars, dbVars, prompts>>
        /\ show_leaderboard(a, leaderboard, {})
FirstPage(pressers) == \E u \in pressers : first_page(u)
PrevPage(pressers) == \E u \in pressers : prev_page(u)
NextPage(pressers) == \E u \in pressers : next_page(u)
LastPage(pressers) == \E u \in pressers : last_page(u)
DeleteMessage(pressers) == \E u \in pressers : delete_message(u)

Scam(authors, members, faults) ==
    \E a \in authors, m \in members, f \in faults : scam_cmd(a, m, f)
Removescammer(authors, members, report_ids, faults) ==
    \E a \in authors, m \in members, n \in report_ids, f \in faults :
        removescammer_cmd(a, m, n, f)
Listscammers(authors, faults) ==
    \E a \in authors, f \in faults : listscammers_cmd(a, f)

Vouchhistory(authors, members, faults) ==
    \E a \in authors, m \in members, f \in faults : vouch_history_cmd(a, m, f)

\* a clearrep issued while no other prompt is open
ClearrepAlone(authors, members, faults) ==
    prompts = {} /\ Clearrep(authors, members, faults)

\* every command, from anyone, about anyone
Next ==
    \/ Vouch(Members, Everyone, Reasons, Faults(vouch_stmts))
    \/ Dummy(Members, Everyone, Faults(dummy_stmts))
    \/ Helpvouch(Members, Everyone, Faults(helpvouch_stmts))
    \/ Repblacklist(Members, Members, Faults(blacklist_stmts))
    \/ Viewblacklist(Members, Faults(viewblacklist_stmts))
    \/ Addrep(Members, Members, Amounts, Faults(addrep_stmts))
    \/ Removerep(Members, Members, Amounts, Faults(removerep_stmts))
    \/ Setrep(Members, Members, Amounts, Faults(setrep_stmts))
    \/ Applyscammer(Members, Everyone, Reasons, Faults(applyscammer_stmts))
    \/ Clearrep(Members, Members, Faults(clearrep_read_stmts))
    \/ ClearrepReaction(Members, Faults(clearrep_write_stmts))
    \/ IgnoredReaction(Members)
    \/ ClearrepTimeout
    \/ Clearallscam(Members, Members, Faults(clearallscam_read_stmts))
    \/ ClearallscamReaction(Members, Faults(clearallscam_write_stmts))
    \/ ClearallscamTimeout
    \/ Rank(Members, Members, Faults(rank_stmts))
    \/ Leaderboard(Members, Faults(leaderboard_stmts))
    \/ FirstPage(Members)
    \/ PrevPage(Members)
    \/ NextPage(Members)
    \/ LastPage(Members)
    \/ DeleteMessage(Members)
    \/ on_timeout
    \/ Scam(Members, Members, Faults(scam_stmts))
    \/ Removescammer(Members, Members, ReportIdArgs, Faults(removescammer_stmts))
    \/ Listscammers(Members, Faults(listscammers_stmts))
    \/ Vouchhistory(Members, Members, Faults(vouch_history_stmts))
    \/ Tick
    \/ ClockSkew

Spec == Init /\ [][Next]_vars

(***************************************************************************)
(* The subsystems.  Each specification below runs the commands that write  *)
(* the tables one group of properties is about, among fewer people; the    *)
(* commands it leaves out do not write those tables.                       *)
(***************************************************************************)
\* vouching: vouches, cooldowns, the blacklist, the server's clock; the
\* statements that may raise are the cooldown read and the three writes
NextVouch ==
    \/ Vouch({"mod", "user"}, {"mod", "user"},
             {<<" ", "o", "k", " ">>, <<"g", "u", "d">>},
             Faults(vouch_stmts \ {"is_blacklisted", "get_reputation"}))
    \/ Repblacklist({OWNER_ID}, {"mod"}, NoFault)
    \/ Tick

SpecVouch == Init /\ [][NextVouch]_vars

\* the daily dummy quota: dummy_usage and the two clocks
NextDummy ==
    \/ Dummy({"mod"}, {"mod", "user", "bot"}, Faults(dummy_stmts))
    \/ Addrep({OWNER_ID}, {"user"}, {5}, NoFault)
    \/ Tick
    \/ ClockSkew

SpecDummy == Init /\ [][NextDummy]_vars

\* clearing an account: every table a clear could touch is filled first
NextClear ==
    \/ Vouch({"mod", "owner"}, {"user", "owner"}, {<<"g", "u", "d">>}, NoFault)
    \/ Helpvouch({"mod"}, {"user"}, NoFault)
    \/ Applyscammer({"mod"}, {"user"}, {<<"f", "r", "a", "u", "d">>}, NoFault)
    \/ Repblacklist({OWNER_ID}, {"user"}, NoFault)
    \/ ClearrepAlone({OWNER_ID}, {"user"}, NoFault)
    \/ ClearrepReaction({OWNER_ID}, Faults(clearrep_write_stmts))
    \/ IgnoredReaction({OWNER_ID, "mod"})
    \/ ClearrepTimeout

SpecClear == Init /\ [][NextClear]_vars

\* reputation arithmetic: every command that writes users.reputation
NextRep ==
    \/ Vouch({"mod"}, {"user"}, {<<"g", "u", "d">>}, NoFault)
    \/ Helpvouch({"mod"}, {"user"}, NoFault)
    \/ Dummy({"mod"}, {"user"}, NoFault)
    \/ Addrep({OWNER_ID}, {"user"}, Amounts, Faults(addrep_stmts))
    \/ Removerep({OWNER_ID}, {"user"}, Amounts, Faults(removerep_stmts))
    \/ Setrep({OWNER_ID}, {"user"}, Amounts, Faults(setrep_stmts))
    \/ Repblacklist({OWNER_ID}, {"user"}, NoFault)
    \/ ClearrepAlone({OWNER_ID}, {"user"}, NoFault)
    \/ ClearrepReaction({OWNER_ID}, NoFault)
    \/ ClearrepTimeout

SpecRep == Init /\ [][NextRep]_vars

\* the dummy quota among several actors, each with a row of its own
NextQuota ==
    \/ Dummy({"mod", "user"}, {"mod", "user", "bot"},
             Faults({"remove_reputation", "use_dummy"}))
    \/ Addrep({OWNER_ID}, {"user"}, {5}, NoFault)
    \/ Tick

SpecQuota == Init /\ [][NextQuota]_vars

\* input validation: every command that validates its arguments, given
\* valid and invalid ones
NextValidate ==
    \/ Vouch({"mod"}, {"mod", "user"},
             {NoReason, <<" ", "o", "k", " ">>, <<"g", "u", "d">>},
             Faults({"is_blacklisted"}))
    \/ Helpvouch({"mod"}, {"mod", "user"}, NoFault)
    \/ Dummy({"mod"}, {"mod", "user"}, NoFault)
    \/ Applyscammer({"mod"}, {"mod", "user"},
                    {NoReason, <<"g", "u", "d">>, <<"f", "r", "a", "u", "d">>}, NoFault)
    \/ Addrep({OWNER_ID}, {"user"}, {0, 2}, NoFault)
    \/ Removerep({OWNER_ID}, {"user"}, {0 - 1, 2}, NoFault)
    \/ Setrep({OWNER_ID}, {"user"}, {0 - 1, 5}, NoFault)

SpecValidate == Init /\ [][NextValidate]_vars

\* the two mutations made of several statements, add_vouch and
\* clear_reputation, any one of whose statements may raise
NextAtomic ==
    \/ Vouch({"mod"}, {"user"}, {<<"g", "u", "d">>},
             Faults({"add_vouch.vouches", "add_vouch.cooldowns"}))
    \/ Helpvouch({"mod"}, {"user"}, NoFault)
    \/ ClearrepAlone({OWNER_ID}, {"user"}, NoFault)
    \/ ClearrepReaction({OWNER_ID}, Faults(clearrep_write_stmts))
    \/ ClearrepTimeout
    \/ Tick

SpecAtomic == Init /\ [][NextAtomic]_vars

\* the confirmation prompts of the two destructive clears, with reactions
\* from the author and from somebody else, on the prompt and elsewhere
NextConfirm ==
    \/ Vouch({"mod"}, {"user"}, {<<"g", "u", "d">>}, NoFault)
    \/ Applyscammer({"mod"}, {"user"}, {<<"f", "r", "a", "u", "d">>}, NoFault)
    \/ Clearrep({OWNER_ID}, {"user"}, NoFault)
    \/ ClearrepReaction({OWNER_ID, "mod"}, NoFault)
    \/ ClearrepTimeout
    \/ Clearallscam({"mod"}, {"user"}, NoFault)
    \/ ClearallscamReaction({OWNER_ID, "mod"}, NoFault)
    \/ ClearallscamTimeout
    \/ IgnoredReaction({OWNER_ID, "mod"})

SpecConfirm == Init /\ [][NextConfirm]_vars

\* the timer of the wait_for(timeout=30.0) waiting on message k
TimeoutOf(k) ==
    \E p \in prompts :
        /\ p.msg_id = k
        /\ (clearrep_timeout(p) \/ clearallscam_timeout(p))

\* the prompts again, now with failing writes in the confirm branch; each
\* wait has its own timer, which fires unless a reaction ended the wait
NextPrompt ==
    \/ Vouch({"mod"}, {"user"}, {<<"g", "u", "d">>}, NoFault)
    \/ Applyscammer({"mod"}, {"user"}, {<<"f", "r", "a", "u", "d">>}, NoFault)
    \/ Clearrep({OWNER_ID}, {"user"}, NoFault)
    \/ ClearrepReaction({OWNER_ID}, Faults(clearrep_write_stmts))
    \/ ClearrepTimeout
    \/ Clearallscam({"mod"}, {"user"}, NoFault)
    \/ ClearallscamReaction({"mod"}, Faults(clearallscam_write_stmts))
    \/ ClearallscamTimeout
    \/ IgnoredReaction({OWNER_ID, "mod"})

SpecPrompt ==
    /\ Init
    /\ [][NextPrompt]_vars
    /\ \A k \in MsgIds : WF_vars(TimeoutOf(k))

\* reading the ledger: reputations of two members go up and down, to equal
\* and to different values, and anyone asks for a rank or for the leaderboard
NextRank ==
    \/ Addrep({OWNER_ID}, {"mod", "user"}, {2}, NoFault)
    \/ Removerep({OWNER_ID}, {"mod", "user"}, {2}, NoFault)
    \/ Rank({"mod", "user"}, Members, Faults({"get_reputation"}))
    \/ Leaderboard({"mod", "user"}, NoFault)

SpecRank == Init /\ [][NextRank]_vars

\* the scammer reports: filed against two members, removed one by one and
\* in bulk, and listed; the INSERT of a report may raise before or after it
\* has drawn its id
NextScam ==
    \/ Applyscammer({"mod"}, {"user", "owner"}, {<<"f", "r", "a", "u", "d">>},
                    Faults({"add_scammer_report", "add_scammer_report.insert"}))
    \/ Removescammer({"mod"}, {"user", "owner"}, ReportIdArgs, NoFault)
    \/ Clearallscam({"mod"}, {"user", "owner"}, NoFault)
    \/ ClearallscamReaction({"mod"}, NoFault)
    \/ ClearallscamTimeout
    \/ Scam({"user"}, {"user", "owner"}, NoFault)
    \/ Listscammers({"user"}, NoFault)

SpecScam == Init /\ [][NextScam]_vars

\* the vouch log: two vouchers, two targets, vouches at the same and at
\* different times, and the log of either target read back
NextHistory ==
    \/ Vouch({"mod", "owner"}, {"user", "owner"}, {<<"g", "u", "d">>}, NoFault)
    \/ Vouchhistory({"user"}, {"user", "owner"}, NoFault)
    \/ Tick

SpecHistory == Init /\ [][NextHistory]_vars

\* helpvouches by a staff member and by an ordinary member, among the
\* commands that are rate-limited: vouch (cooldown) and dummy (daily quota)
NextHelp ==
    \/ Helpvouch({"mod", "user"}, {"mod", "user", "bot"}, NoFault)
    \/ Vouch({"mod"}, {"user"}, {<<"g", "u", "d">>}, NoFault)
    \/ Dummy({"mod"}, {"user"}, NoFault)
    \/ Tick

SpecHelp == Init /\ [][NextHelp]_vars

\* leaderboards of one to three pages and the buttons of their view, pressed
\* by the command's author and by somebody else
NextView ==
    \/ ShowLeaderboard({"mod", "user"}, Leaderboards)
    \/ FirstPage({"mod", "user"})
    \/ PrevPage({"mod", "user"})
    \/ NextPage({"mod", "user"})
    \/ LastPage({"mod", "user"})
    \/ DeleteMessage({"mod", "user"})
    \/ on_timeout

SpecView == Init /\ [][NextView]_vars

\* clears of a user who has vouched, helped and used dummy, and who has
\* been vouched for
NextFrame ==
    \/ Vouch({"user", "mod"}, {"user", "mod"}, {<<"g","u","d">>}, NoFault)
    \/ Helpvouch({"user", "mod"}, {"user", "mod"}, NoFault)
    \/ Dummy({"user"}, {"mod"}, NoFault)
    \/ ClearrepAlone({OWNER_ID}, {"user"}, NoFault)
    \/ ClearrepReaction({OWNER_ID}, Faults(clearrep_write_stmts))
    \/ ClearrepTimeout

SpecFrame == Init /\ [][NextFrame]_vars

(***************************************************************************)
(* The file-backed ledger (spec 4.2 and 5): the six collections are held   *)
(* in memory and mirrored to one document whose identity keys are text;    *)
(* on startup the document is parsed and the keys are coerced back to the  *)
(* integer identity.  The members' names of this module stand for their    *)
(* integer identities, which discord_id gives.                             *)
(***************************************************************************)
discord_id(u) ==
    CASE u = "owner" -> 10 [] u = "mod" -> 21 [] u = "user" -> 305 [] OTHER -> 4

member_of(id) == CHOOSE u \in Everyone : discord_id(u) = id

Digit == <<"0", "1", "2", "3", "4", "5", "6", "7", "8", "9">>

\* the decimal text of an identity
RECURSIVE str(_)
str(n) ==
    IF n < 10 THEN <<Digit[n + 1]>>
    ELSE Append(str(n \div 10), Digit[(n % 10) + 1])

\* the identity a decimal text stands for
RECURSIVE int(_)
int(s) ==
    IF s = <<>> THEN 0
    ELSE 10 * int(SubSeq(s, 1, Len(s) - 1))
         + (CHOOSE d \in 0..9 : Digit[d + 1] = s[Len(s)])

\* a keyed collection with its keys as text
dump_keyed(T) ==
    LET key == [u \in DOMAIN T |-> str(discord_id(u))]
    IN  [k \in {key[u] : u \in DOMAIN T} |-> T[CHOOSE u \in DOMAIN T : key[u] = k]]

\* a keyed section of the document with its keys as identities again
load_keyed(S) ==
    LET id == [k \in DOMAIN S |-> int(k)]
    IN  [u \in {member_of(id[k]) : k \in DOMAIN S}
            |-> S[CHOOSE k \in DOMAIN S : member_of(id[k]) = u]]

\* a log with the identities in its rows as numbers
dump_log(L, fields) ==
    [i \in 1..Len(L) |->
        [f \in DOMAIN L[i] |-> IF f \in fields THEN discord_id(L[i][f]) ELSE L[i][f]]]

load_log(L, fields) ==
    [i \in 1..Len(L) |->
        [f \in DOMAIN L[i] |-> IF f \in fields THEN member_of(L[i][f]) ELSE L[i][f]]]

\* the document written for the six collections, with its last_saved field
save_document(U, V, H, C, D, R, ts) ==
    [users |-> dump_keyed(U),
     vouches |-> dump_log(V, {"target_id", "voucher_id"}),
     helpvouches |-> dump_log(H, {"target_id", "helper_id"}),
     cooldowns |-> dump_keyed(C),
     dummy_usage |-> dump_keyed(D),
     scammer_reports |-> dump_log(R, {"user_id", "reporter_id"}),
     last_saved |-> ts]

\* a load that rebuilds the logs newest first
load_document_newest_first(doc) ==
    [users |-> load_keyed(doc.users),
     vouches |-> Reverse(load_log(doc.vouches, {"target_id", "voucher_id"})),
     helpvouches |-> Reverse(load_log(doc.helpvouches, {"target_id", "helper_id"})),
     cooldowns |-> load_keyed(doc.cooldowns),
     dummy_usage |-> load_keyed(doc.dummy_usage),
     scammer_reports |-> Reverse(load_log(doc.scammer_reports,
                                          {"user_id", "reporter_id"}))]

\* the six collections a fresh instance reconstructs from the document
load_document(doc) ==
    [users |-> load_keyed(doc.users),
     vouches |-> load_log(doc.vouches, {"target_id", "voucher_id"}),
     helpvouches |-> load_log(doc.helpvouches, {"target_id", "helper_id"}),
     cooldowns |-> load_keyed(doc.cooldowns),
     dummy_usage |-> load_keyed(doc.dummy_usage),
     scammer_reports |-> load_log(doc.scammer_reports, {"user_id", "reporter_id"})]

\* the process stops after writing the document and a fresh instance starts
\* against it: its collections are the ones it loads
restart ==
    /\ prompts = {}
    /\ LET doc == save_document(users, vouches, helpvouches, cooldowns,
                                dummy_usage, scammer_reports, now)
           fresh == load_document(doc)
       IN  /\ users' = fresh.users
           /\ vouches' = fresh.vouches
           /\ helpvouches' = fresh.helpvouches
           /\ cooldowns' = fresh.cooldowns
           /\ dummy_usage' = fresh.dummy_usage
           /\ scammer_reports' = fresh.scammer_reports
           /\ Answer("restart", "none", "none", "ok", <<doc>>, {})
    /\ UNCHANGED <<scammer_reports_id_seq, clockVars, prompts, view>>

\* the ledger's operations filling the six collections, and restarts
NextFile ==
    \/ Vouch({"mod", "owner"}, {"user"}, {<<"g","u","d">>}, NoFault)
    \/ Helpvouch({"mod"}, {"user"}, NoFault)
    \/ Dummy({"mod"}, {"user"}, NoFault)
    \/ Applyscammer({"mod", "owner"}, {"user"}, {<<"f","r","a","u","d">>}, NoFault)
    \/ Repblacklist({OWNER_ID}, {"user"}, NoFault)
    \/ restart

SpecFile == Init /\ [][NextFile]_vars

\* the blacklist commands, on users with and without an account, and the
\* vouches of a user who may be blacklisted
NextBlacklist ==
    \/ Repblacklist({OWNER_ID, "user"}, {"mod", "user"}, Faults(blacklist_stmts))
    \/ Viewblacklist({OWNER_ID, "user"}, Faults(viewblacklist_stmts))
    \/ Addrep({OWNER_ID}, {"mod", "user"}, {2}, NoFault)
    \/ Vouch({"user"}, {"user", "mod", "bot"}, {NoReason, <<"g","u","d">>},
             Faults({"is_blacklisted"}))

SpecBlacklist == Init /\ [][NextBlacklist]_vars

(***************************************************************************)
(* Properties                                                              *)
(***************************************************************************)
\* the row of a key, as a sequence of at most one row
Row(T, key) == IF key \in DOMAIN T THEN <<T[key]>> ELSE <<>>

\* the last command ran to its end and none of its statements raised
Ran(r, cmd) == r.cmd = cmd /\ r.outcome = "ok" /\ r.errors = {}

\* C1: in every reachable state every account's reputation is an integer
\* that is at least 0.
C1_ReputationNonNegative ==
    \A u \in DOMAIN users : users[u].reputation \in Nat

\* a removal has clamped: a dummy took 3 from a reputation that a
\* helpvouch had made and left 0
C1_Witness ==
    /\ Ran(reply, "dummy")
    /\ helpvouches # <<>>
    /\ vouches = <<>>
    /\ "user" \in DOMAIN users
    /\ users["user"].reputation = 0

\* C2: a vouch by a voucher whose CooldownMark is less than 600 seconds old
\* (and that no earlier validation refuses) changes neither reputations, nor
\* the vouch log, nor any CooldownMark, and unless a statement raised it is
\* answered cooldown-active with the remaining time.
C2_SecondVouchRejected ==
    [][ (/\ reply'.cmd = "vouch"
         /\ reply'.author \in DOMAIN cooldowns
         /\ now - cooldowns[reply'.author] < VOUCH_COOLDOWN
         /\ reply'.outcome \notin {"blacklisted", "reason_required", "self", "bot"})
        => (/\ UNCHANGED <<users, vouches, cooldowns>>
            /\ reply'.errors = {}
               => /\ reply'.outcome = "cooldown"
                  /\ reply'.value =
                         format_time(VOUCH_COOLDOWN - (now - cooldowns[reply'.author]))) ]_vars

\* the vouch rows whose target is u
VouchesFor(u) == {i \in DOMAIN vouches : vouches[i].target_id = u}
\* the vouch rows whose voucher is v
VouchesBy(v) == {i \in DOMAIN vouches : vouches[i].voucher_id = v}

\* C3: the three effects of a vouch go together.  Where vouches are the only
\* source of reputation, every state has: each reputation is 3 for each
\* VouchRecord of that target, a voucher has a CooldownMark exactly if it
\* has a VouchRecord, and the mark is no older than the record.
C3_VouchEffectsTogether ==
    /\ \A u \in Members :
           get_reputation(users, u, FALSE) = VOUCH_REP_AMOUNT * Cardinality(VouchesFor(u))
    /\ \A v \in Members : (v \in DOMAIN cooldowns) <=> (VouchesBy(v) # {})
    /\ \A i \in DOMAIN vouches :
           /\ vouches[i].voucher_id \in DOMAIN cooldowns
           /\ cooldowns[vouches[i].voucher_id] >= vouches[i].created_at

\* C4: a vouch by v for t that ran to its end adds exactly 3 to t's
\* reputation, appends exactly one VouchRecord (t, v, a valid reason, 3,
\* now), sets v's CooldownMark to now and leaves every other CooldownMark
\* (t's too) and every other account (v's too) as they were; and a vouch that
\* passes the validations (v is not t, t is no bot, v is not blacklisted,
\* the reason is valid, v is not in cooldown) runs to its end.
C4_SuccessfulVouch ==
    [][ (reply'.cmd = "vouch" /\ reply'.errors = {})
        => LET v == reply'.author
               t == reply'.member
           IN  /\ (/\ v # t
                   /\ t \notin Bots
                   /\ ~is_blacklisted(users, v, FALSE)
                   /\ reply'.outcome # "reason_required"
                   /\ get_vouch_cooldown(cooldowns, v, now, FALSE) = <<>>)
                  => reply'.outcome = "ok"
               /\ reply'.outcome = "ok"
                  => /\ v # t
                     /\ ~is_blacklisted(users, v, FALSE)
                     /\ get_vouch_cooldown(cooldowns, v, now, FALSE) = <<>>
                     /\ get_reputation(users', t, FALSE)
                            = get_reputation(users, t, FALSE) + VOUCH_REP_AMOUNT
                     /\ \A u \in Members \ {t} : Row(users', u) = Row(users, u)
                     /\ Len(vouches') = Len(vouches) + 1
                     /\ SubSeq(vouches', 1, Len(vouches)) = vouches
                     /\ LET rec == vouches'[Len(vouches')]
                        IN  /\ rec.target_id = t
                            /\ rec.voucher_id = v
                            /\ ~reason_missing(rec.reason, VOUCH_MIN_REASON)
                            /\ rec.rep_amount = VOUCH_REP_AMOUNT
                            /\ rec.created_at = now
                     /\ Row(cooldowns', v) = <<now>>
                     /\ \A u \in Members \ {v} : Row(cooldowns', u) = Row(cooldowns, u) ]_vars

\* a vouch has run for a target that holds a CooldownMark of its own, older
\* than the voucher's new one
C4_Witness ==
    /\ Ran(reply, "vouch")
    /\ reply.member \in DOMAIN cooldowns
    /\ cooldowns[reply.member] < cooldowns[reply.author]
    /\ cooldowns[reply.author] = now

\* C5: a confirmed clearrep of a member leaves that member's blacklist
\* status as it was.
C5_ClearKeepsBlacklist ==
    [][ (reply'.cmd = "clearrep" /\ reply'.outcome = "cleared")
        => (is_blacklisted(users', reply'.member, FALSE)
                = is_blacklisted(users, reply'.member, FALSE)) ]_vars

\* C6: a confirmed clearrep of u whose statements all ran leaves no Account
\* row of u and no VouchRecord or HelpVouchRecord whose target is u, keeps
\* every other row, so that get_reputation(u) is 0 and u's vouch history is
\* empty; and it leaves every ScammerReport as it was.
C6_ClearAccount ==
    [][ (reply'.cmd = "clearrep" /\ reply'.outcome = "cleared" /\ reply'.errors = {})
        => LET u == reply'.member
           IN  /\ u \notin DOMAIN users'
               /\ \A w \in Members \ {u} : Row(users', w) = Row(users, w)
               /\ vouches' = SelectSeq(vouches, LAMBDA r : r.target_id # u)
               /\ helpvouches' = SelectSeq(helpvouches, LAMBDA r : r.target_id # u)
               /\ get_reputation(users', u, FALSE) = 0
               /\ get_vouch_history(vouches', u, MaxVouches + 1, FALSE) = <<>>
               /\ scammer_reports' = scammer_reports ]_vars

\* a clearrep has run for a member that had reputation and vouches when the
\* owner asked, with a scammer report in the table and a vouch for somebody
\* else left in the log
C6_Witness ==
    /\ reply.cmd = "clearrep"
    /\ reply.outcome = "cleared"
    /\ reply.errors = {}
    /\ reply.value[1] > 0
    /\ reply.value[2] > 0
    /\ scammer_reports # <<>>
    /\ vouches # <<>>

\* C7: while the server's date is the usage_date of the caller's DummyUsage
\* row, a dummy none of whose statements raised is not refused for the limit
\* below 3 uses, and from 3 uses on it is refused with remaining 0 and
\* consumes nothing: the row and the reputations stay as they are.
C7_QuotaOfThree ==
    [][ (/\ reply'.cmd = "dummy"
         /\ reply'.errors = {}
         /\ reply'.author \in DOMAIN dummy_usage
         /\ dummy_usage[reply'.author].usage_date = CURRENT_DATE)
        => LET used == dummy_usage[reply'.author].count
           IN  /\ used < DUMMY_PER_DAY => reply'.outcome # "limit"
               /\ used >= DUMMY_PER_DAY
                  => /\ reply'.outcome = "limit"
                     /\ reply'.value = <<0>>
                     /\ UNCHANGED <<dummy_usage, users>> ]_vars

\* C8: for every DummyUsage row whose usage_date is not the date that
\* can_use_dummy takes for today, it returns allowed with all 3 uses remaining.
C8_StaleRowAllowsThree ==
    \A a \in DOMAIN dummy_usage :
        dummy_usage[a].usage_date # utcnow_date
        => can_use_dummy(dummy_usage, a, utcnow_date, FALSE) = <<TRUE, DUMMY_PER_DAY>>

\* a row of yesterday with all 3 uses counted
C8_Witness ==
    \E a \in DOMAIN dummy_usage :
        dummy_usage[a] = [usage_date |-> utcnow_date - 1, count |-> DUMMY_PER_DAY]

\* C9: a DummyUsage row only ever changes to the server's current date, with
\* count + 1 if it was of that date and count 1 if it was of another date or
\* absent; and a dummy whose statements all ran changes the caller's row so.
C9_ConsumeForCurrentDate ==
    [][ \A a \in Members :
            LET old == Row(dummy_usage, a)
                new == Row(dummy_usage', a)
                expected == [usage_date |-> CURRENT_DATE,
                             count |-> IF old # <<>> /\ old[1].usage_date = CURRENT_DATE
                                       THEN old[1].count + 1
                                       ELSE 1]
            IN  /\ new # old => new = <<expected>>
                /\ (Ran(reply', "dummy") /\ reply'.author = a) => new = <<expected>> ]_vars

\* a dummy has run and counted a second use on the server's date, the day
\* after the first state's
C9_Witness ==
    /\ Ran(reply, "dummy")
    /\ dummy_usage[reply.author] = [usage_date |-> CURRENT_DATE, count |-> 2]
    /\ CURRENT_DATE = StartTime \div DAY + 1

\* C10: can_use_dummy and use_dummy judge the row by the same date: the
\* result of can_use_dummy is the one the server's date gives, and the uses
\* it reports as remaining are those the written count leaves.
C10_CheckAgreesWithConsume ==
    [][ Ran(reply', "dummy")
        => LET a == reply'.author
           IN  /\ can_use_dummy(dummy_usage, a, utcnow_date, FALSE)
                      = can_use_dummy(dummy_usage, a, CURRENT_DATE, FALSE)
               /\ dummy_usage'[a].count = DUMMY_PER_DAY - reply'.value[1] ]_vars

\* C11: a dummy aimed at its own author or at a bot, whether or not it passed
\* the quota check, leaves every DummyUsage row and every reputation as they
\* were.
C11_AbortedDummyConsumesNothing ==
    [][ (/\ reply'.cmd = "dummy"
         /\ (reply'.member = reply'.author \/ reply'.member \in Bots))
        => UNCHANGED <<dummy_usage, users>> ]_vars

\* a dummy was refused for its target after passing the quota check with
\* two uses already counted today
C11_Witness ==
    /\ reply.cmd = "dummy"
    /\ reply.outcome \in {"self", "bot"}
    /\ reply.author \in DOMAIN dummy_usage
    /\ dummy_usage[reply.author] = [usage_date |-> CURRENT_DATE, count |-> 2]

\* the uses an actor's row counts for the server's current date
DailyCount(D, a) ==
    IF a \in DOMAIN D /\ D[a].usage_date = CURRENT_DATE THEN D[a].count ELSE 0

\* C12: a dummy by a on t whose statements all ran sets t's reputation to
\* max(0, r - 3), leaving t's blacklist flag and every other account as they
\* were, and counts exactly one more use for a today, leaving every other
\* actor's DummyUsage row, t's too, as it was.
C12_SuccessfulDummy ==
    [][ Ran(reply', "dummy")
        => LET a == reply'.author
               t == reply'.member
               r == get_reputation(users, t, FALSE)
           IN  /\ get_reputation(users', t, FALSE)
                      = (IF r - DUMMY_REP_REMOVE > 0 THEN r - DUMMY_REP_REMOVE ELSE 0)
               /\ t \in DOMAIN users'
               /\ is_blacklisted(users', t, FALSE) = is_blacklisted(users, t, FALSE)
               /\ \A u \in Members \ {t} : Row(users', u) = Row(users, u)
               /\ DailyCount(dummy_usage', a) = DailyCount(dummy_usage, a) + 1
               /\ \A u \in Members \ {a} : Row(dummy_usage', u) = Row(dummy_usage, u) ]_vars

\* a dummy has run for the second time today against a target that has a
\* DummyUsage row of its own and had reputation 5
C12_Witness ==
    /\ Ran(reply, "dummy")
    /\ reply.member = "user"
    /\ "user" \in DOMAIN dummy_usage
    /\ dummy_usage[reply.author].count = 2
    /\ users["user"].reputation = 2

\* the amounts remove_reputation is tried with: 0, and up to 10 from 6 and
\* beyond the highest reputation
RemoveAmounts == 0..(MaxRep + 3)

\* C13: in every reachable state, for every user with reputation r >= 0 (0
\* for a user without Account) and every amount a >= 0, remove_reputation
\* leaves that user with an Account whose reputation is max(0, r - a), and
\* changes nobody else.
C13_RemoveFloorsAtZero ==
    \A u \in Members, a \in RemoveAmounts :
        LET r == get_reputation(users, u, FALSE)
            U1 == remove_reputation(users, u, a, FALSE)
        IN  /\ r >= 0
            /\ u \in DOMAIN U1
            /\ U1[u].reputation = (IF r - a > 0 THEN r - a ELSE 0)
            /\ get_reputation(U1, u, FALSE) = U1[u].reputation
            /\ u \notin DOMAIN users => U1[u].reputation = 0
            /\ \A w \in Members \ {u} : Row(U1, w) = Row(users, w)

\* an account of reputation 6, from which 10 can be removed, beside a user
\* without Account
C13_Witness ==
    /\ "user" \in DOMAIN users
    /\ users["user"].reputation = 6
    /\ "mod" \notin DOMAIN users
    /\ 10 \in RemoveAmounts

\* a reason that is absent or, stripped, shorter than n characters
TooShort(reason, n) == reason = NoReason \/ Len(strip(reason)) < n

\* a step of a command whose arguments validation refuses: a vouch,
\* helpvouch, dummy or applyscammer aimed at its author, a vouch reason
\* shorter than 3 or a report reason shorter than 5 characters, an amount
\* <= 0 for addrep or removerep, an amount < 0 for setrep
RejectedByValidation ==
    LET a == reply'.author
        m == reply'.member
    IN  \/ /\ reply'.cmd = "vouch"
           /\ \E r \in Reasons, f \in Faults(vouch_stmts) :
                  /\ m = a \/ TooShort(r, 3)
                  /\ vouch_cmd(a, m, r, f)
        \/ /\ reply'.cmd = "helpvouch"
           /\ \E f \in Faults(helpvouch_stmts) : m = a /\ helpvouch_cmd(a, m, f)
        \/ /\ reply'.cmd = "dummy"
           /\ \E f \in Faults(dummy_stmts) : m = a /\ dummy_cmd(a, m, f)
        \/ /\ reply'.cmd = "applyscammer"
           /\ \E r \in Reasons, f \in Faults(applyscammer_stmts) :
                  /\ m = a \/ TooShort(r, 5)
                  /\ applyscammer_cmd(a, m, r, f)
        \/ /\ reply'.cmd = "addrep"
           /\ \E n \in Amounts, f \in Faults(addrep_stmts) :
                  n <= 0 /\ addrep_cmd(a, m, n, f)
        \/ /\ reply'.cmd = "removerep"
           /\ \E n \in Amounts, f \in Faults(removerep_stmts) :
                  n <= 0 /\ removerep_cmd(a, m, n, f)
        \/ /\ reply'.cmd = "setrep"
           /\ \E n \in Amounts, f \in Faults(setrep_stmts) :
                  n < 0 /\ setrep_cmd(a, m, n, f)

\* C14: a command whose arguments validation refuses changes no table.
C14_RejectedChangesNothing ==
    [][ RejectedByValidation => UNCHANGED dbVars ]_vars

\* a command was refused by validation while every table it could have
\* written held rows
C14_Witness ==
    /\ reply.outcome \in {"self", "reason_required", "bad_amount"}
    /\ users # EmptyTable
    /\ vouches # <<>>
    /\ helpvouches # <<>>
    /\ scammer_reports # <<>>
    /\ dummy_usage # EmptyTable

\* C15: whenever a statement of a command raised, the command answers with
\* an error, never with a normal outcome computed from a default.
C15_ErrorsSurface ==
    reply.errors # {} => reply.outcome = "error"

\* C16: each mutation of several statements is applied whole or not at all.
\* A confirmed clear either leaves users, vouches and helpvouches as they
\* were or removes the member's rows from all three, and a vouch either
\* leaves vouches and cooldowns as they were or both inserts the VouchRecord
\* and sets the voucher's CooldownMark.
C16_MutationsAllOrNothing ==
    [][ /\ (reply'.cmd = "clearrep" /\ reply'.outcome = "cleared")
           => LET u == reply'.member
              IN  \/ UNCHANGED <<users, vouches, helpvouches>>
                  \/ /\ users' = Delete(users, u)
                     /\ vouches' = SelectSeq(vouches, LAMBDA r : r.target_id # u)
                     /\ helpvouches' = SelectSeq(helpvouches, LAMBDA r : r.target_id # u)
        /\ (reply'.cmd = "vouch" /\ reply'.outcome = "ok")
           => \/ UNCHANGED <<vouches, cooldowns>>
              \/ /\ Len(vouches') = Len(vouches) + 1
                 /\ Row(cooldowns', reply'.author) = <<now>> ]_vars

\* C17: a clearrep or clearallscam step changes the ledger only when it takes
\* the confirm reaction of the command's author on the prompt message while
\* the prompt is still open; a timeout, a cancel, and a reaction by another
\* user or on another message leave the ledger unchanged.
C17_ClearOnlyOnAuthorConfirm ==
    [][ reply'.cmd \in {"clearrep", "clearallscam"}
        => /\ dbVars' # dbVars
              => \E p \in prompts :
                    /\ p \notin prompts'
                    /\ p.cmd = reply'.cmd
                    /\ p.member = reply'.member
                    /\ reply'.reaction = {Reaction(p.author, "confirm", p.msg_id)}
           /\ reply'.outcome \in {"timeout", "cancelled", "waiting"}
              => UNCHANGED dbVars
           /\ \A r \in reply'.reaction :
                 (\A p \in prompts : r.user # p.author \/ r.msg_id # p.msg_id)
                 => UNCHANGED dbVars ]_vars

\* a clearallscam confirmed by its author has removed the reports it showed
C17_Witness ==
    /\ reply.cmd = "clearallscam"
    /\ reply.outcome = "cleared"
    /\ reply.reaction = {Reaction(reply.author, "confirm", 1)}
    /\ reply.value[1] > 0
    /\ get_scammer_reports(scammer_reports, reply.member, FALSE) = <<>>

ClearOutcomes == {"cleared", "cancelled", "timeout"}

\* C18: every posted prompt of clearrep or clearallscam is eventually closed,
\* reactions or not, and a prompt is closed by exactly one step, whose
\* outcome is one of cleared, cancelled and timeout.
C18_PromptTerminates ==
    /\ \A k \in MsgIds :
          (\E p \in prompts : p.msg_id = k) ~> ~(\E p \in prompts : p.msg_id = k)
    /\ [][ /\ \A p \in prompts \ prompts' :
                /\ prompts' = prompts \ {p}
                /\ reply'.cmd = p.cmd
                /\ reply'.outcome \in ClearOutcomes
           /\ (reply'.cmd \in {"clearrep", "clearallscam"}
                  /\ reply'.outcome \in ClearOutcomes)
              => \E p \in prompts : prompts' = prompts \ {p} ]_vars

\* a prompt nobody reacted to has timed out
C18_Witness ==
    /\ reply.cmd \in {"clearrep", "clearallscam"}
    /\ reply.outcome = "timeout"
    /\ reply.reaction = {}
    /\ prompts = {}

\* C19: add_reputation and remove_reputation each act in one step on the
\* reputation stored at that step: an addrep of a leaves r + a and a
\* removerep of a leaves max(0, r - a), whatever steps came before, so no
\* update is lost and the final reputation is that of the calls applied one
\* after another in the order of their steps; no other row changes.
C19_UpdatesAreSerial ==
    [][ LET m == reply'.member
            a == reply'.value[1]
            r == get_reputation(users, m, FALSE)
        IN  /\ Ran(reply', "addrep")
               => /\ m \in DOMAIN users'
                  /\ users'[m].reputation = r + a
                  /\ \A u \in Members \ {m} : Row(users', u) = Row(users, u)
            /\ Ran(reply', "removerep")
               => /\ m \in DOMAIN users'
                  /\ users'[m].reputation = IF r >= a THEN r - a ELSE 0
                  /\ \A u \in Members \ {m} : Row(users', u) = Row(users, u) ]_vars

\* an addrep has added to a reputation that earlier steps had built up
C19_Witness ==
    /\ Ran(reply, "addrep")
    /\ reply.value[1] < users[reply.member].reputation
    /\ vouches # <<>>

\* C20: for every user, get_vouch_cooldown returns none when the user has no
\* CooldownMark or at least 600 seconds have passed since it (exactly 600
\* included), and otherwise exactly 600 minus the seconds passed, a value
\* greater than 0 and at most 600.
C20_CooldownRemaining ==
    \A u \in Members :
        LET remaining == get_vouch_cooldown(cooldowns, u, now, FALSE)
        IN  IF u \notin DOMAIN cooldowns \/ now - cooldowns[u] >= 600
            THEN remaining = <<>>
            ELSE /\ remaining = <<600 - (now - cooldowns[u])>>
                 /\ remaining[1] > 0
                 /\ remaining[1] <= 600

\* one mark is exactly 600 seconds old, one is younger, one user has none
C20_Witness ==
    /\ \E u \in DOMAIN cooldowns : now - cooldowns[u] = 600
    /\ \E u \in DOMAIN cooldowns : now - cooldowns[u] < 600
    /\ \E u \in Members : u \notin DOMAIN cooldowns

\* C21: right after a successful vouch, before the clock has moved, the
\* remaining cooldown of the voucher is the whole window of 600 seconds,
\* never none.
C21_FullCooldownAfterVouch ==
    Ran(reply, "vouch")
    => get_vouch_cooldown(cooldowns, reply.author, now, FALSE) = <<600>>

\* the voucher's second vouch, made once the first cooldown had run out
C21_Witness ==
    /\ Ran(reply, "vouch")
    /\ Cardinality(VouchesBy(reply.author)) = 2
    /\ \E i \in VouchesBy(reply.author) : now - vouches[i].created_at >= 600

\* C22: get_reputation answers 0 for a user without an Account, creates no
\* Account row, and answers the same on the next call when nothing was
\* written in between.
C22_ReadCreatesNothing ==
    [][ reply'.cmd = "rank"
        => /\ UNCHANGED dbVars
           /\ reply'.errors = {}
              => /\ reply'.member \notin DOMAIN users => reply'.value[1] = 0
                 /\ (reply.cmd = "rank" /\ reply.errors = {}
                        /\ reply.member = reply'.member)
                    => reply'.value[1] = reply.value[1] ]_vars

\* a rank asked about a member without an Account, while others have one
C22_Witness ==
    /\ reply.cmd = "rank"
    /\ reply.errors = {}
    /\ reply.member \notin DOMAIN users
    /\ reply.value[1] = 0
    /\ users # EmptyTable

\* C23: an add_reputation of a > 0 creates the Account with reputation a,
\* not blacklisted, when the user has none, and otherwise adds exactly a to
\* the reputation and leaves the blacklist flag as it was; adding 3 twice
\* on a fresh ledger gives a reputation of 6.
C23_AddCreatesOrIncrements ==
    /\ get_reputation(add_reputation(add_reputation(EmptyTable, "user", 3, FALSE),
                                     "user", 3, FALSE),
                      "user", FALSE) = 6
    /\ [][ Ran(reply', "addrep")
           => LET m == reply'.member
                  a == reply'.value[1]
              IN  /\ a > 0
                  /\ m \in DOMAIN users'
                  /\ IF m \in DOMAIN users
                     THEN /\ users'[m].reputation = users[m].reputation + a
                          /\ users'[m].is_blacklisted = users[m].is_blacklisted
                     ELSE users'[m] = [reputation |-> a, is_blacklisted |-> FALSE] ]_vars

\* an addrep has added to the reputation of a blacklisted member
C23_Witness ==
    /\ Ran(reply, "addrep")
    /\ users[reply.member].is_blacklisted
    /\ users[reply.member].reputation > reply.value[1]

\* C24: a leaderboard holds exactly the accounts of reputation > 0 in order
\* of non-increasing reputation, and with no write in between the next call
\* returns the same sequence: the same leaderboard, and for every member the
\* same rank, members of equal reputation included.
C24_LeaderboardStable ==
    [][ /\ (reply'.cmd = "leaderboard" /\ reply'.outcome = "ok")
           => LET lb == reply'.value[1]
              IN  /\ {lb[i][1] : i \in DOMAIN lb} =
                         {u \in DOMAIN users : users[u].reputation > 0}
                  /\ \A i \in DOMAIN lb : lb[i][2] = users[lb[i][1]].reputation
                  /\ \A i, j \in DOMAIN lb : i < j => lb[i][2] >= lb[j][2]
                  /\ Len(lb) = Cardinality({lb[i][1] : i \in DOMAIN lb})
                  /\ (reply.cmd = "leaderboard" /\ reply.outcome = "ok")
                     => reply'.value = reply.value
        /\ (reply'.cmd = "rank" /\ reply.cmd = "rank"
               /\ reply'.member = reply.member)
           => reply'.value[2] = reply.value[2] ]_vars

\* the ids of the reports in a table
ReportIdsOf(R) == {R[i].id : i \in DOMAIN R}

\* C25: report ids are unique and never used again.  The sequence never goes
\* back and no report in the table has an id beyond it, so it bounds every
\* id assigned so far, deleted reports included; and every report that a
\* step adds gets an id strictly greater than that.
C25_ReportIdsNeverReused ==
    [][ /\ scammer_reports_id_seq' >= scammer_reports_id_seq
        /\ \A n \in ReportIdsOf(scammer_reports') : n <= scammer_reports_id_seq'
        /\ \A n \in ReportIdsOf(scammer_reports') \ ReportIdsOf(scammer_reports) :
              n > scammer_reports_id_seq
        /\ Cardinality(ReportIdsOf(scammer_reports')) = Len(scammer_reports') ]_vars

\* a report filed after the removal of an earlier one: it has the second id
\* and is alone in the table
C25_Witness ==
    /\ Ran(reply, "applyscammer")
    /\ ReportIdsOf(scammer_reports) = {2}

\* C26: removing a report by id removes the report of that id and no other,
\* and for an id no report has it changes nothing and raises nothing.
C26_RemoveExactlyOne ==
    /\ [](\A n \in (1..(MaxReportIds + 1)) \ ReportIdsOf(scammer_reports) :
             remove_scammer_report(scammer_reports, n, FALSE) = scammer_reports)
    /\ [][ reply'.cmd = "removescammer"
           => /\ Ran(reply', "removescammer")
                 => /\ reply'.value[1] \in ReportIdsOf(scammer_reports)
                    /\ scammer_reports' =
                           SelectSeq(scammer_reports, LAMBDA r : r.id # reply'.value[1])
                    /\ Len(scammer_reports') = Len(scammer_reports) - 1
              /\ reply'.outcome # "ok"
                 => /\ UNCHANGED dbVars
                    /\ reply'.errors = {}
              /\ UNCHANGED <<users, vouches, cooldowns, dummy_usage, helpvouches,
                             scammer_reports_id_seq>> ]_vars

\* one of a member's two reports was removed and the other one is still there
C26_Witness ==
    /\ Ran(reply, "removescammer")
    /\ Len(scammer_reports) = 1
    /\ scammer_reports[1].user_id = reply.member
    /\ scammer_reports[1].id # reply.value[1]

\* the reports about u that exist
ReportsAbout(u) == {i \in DOMAIN scammer_reports : scammer_reports[i].user_id = u}

\* C27: whatever get_all_scammers returns has one (user_id, report_count)
\* row for each user with at least one report and for nobody else, the
\* count being the number of that user's reports, in order of
\* non-increasing count; and listscammers shows such a result.
C27_ReportedUsersListed ==
    /\ \A s \in get_all_scammers(scammer_reports, FALSE) :
          /\ {s[i][1] : i \in DOMAIN s} = {u \in Everyone : ReportsAbout(u) # {}}
          /\ \A i, j \in DOMAIN s : s[i][1] = s[j][1] => i = j
          /\ \A i \in DOMAIN s : s[i][2] = Cardinality(ReportsAbout(s[i][1]))
          /\ \A i, j \in DOMAIN s : i < j => s[i][2] >= s[j][2]
    /\ get_all_scammers(scammer_reports, FALSE) # {}
    /\ (reply.cmd = "listscammers" /\ reply.outcome = "ok" /\ reply.errors = {})
       => reply.value[1] \in get_all_scammers(scammer_reports, FALSE)
    /\ (reply.cmd = "listscammers" /\ reply.outcome = "empty" /\ reply.errors = {})
       => scammer_reports = <<>>

\* two reports against one member and one against another: the list shows
\* the member with two first
C27_Witness ==
    /\ reply.cmd = "listscammers"
    /\ reply.outcome = "ok"
    /\ reply.value[1] = << <<"user", 2>>, <<"owner", 1>> >>
    /\ scammer_reports[Len(scammer_reports)].user_id = "user"

\* C28: in every state is_reported_scammer(u) is true exactly when a report
\* about u exists; and a confirmed clearallscam of u removes every report
\* about u and no report about anybody else, after which u is not reported
\* and u's list of reports is empty.
C28_ClearReportsOfUser ==
    /\ [](\A u \in Everyone :
             is_reported_scammer(scammer_reports, u, FALSE) <=> ReportsAbout(u) # {})
    /\ [][ (reply'.cmd = "clearallscam" /\ reply'.outcome = "cleared"
             /\ reply'.errors = {})
           => LET u == reply'.member
              IN  /\ scammer_reports' =
                         SelectSeq(scammer_reports, LAMBDA r : r.user_id # u)
                  /\ ~is_reported_scammer(scammer_reports', u, FALSE)
                  /\ get_scammer_reports(scammer_reports', u, FALSE) = <<>>
                  /\ \A v \in Everyone \ {u} :
                        get_scammer_reports(scammer_reports', v, FALSE) =
                            get_scammer_reports(scammer_reports, v, FALSE) ]_vars

\* both reports about one member were cleared and the report about another
\* member is still there
C28_Witness ==
    /\ reply.cmd = "clearallscam"
    /\ reply.outcome = "cleared"
    /\ reply.errors = {}
    /\ reply.value = <<2>>
    /\ Len(scammer_reports) = 1
    /\ scammer_reports[1].user_id # reply.member

\* the limits a history is asked with
HistoryLimits == 0..(MaxVouches + 1)

\* C29: for every user and limit, get_vouch_history returns only
\* VouchRecords whose target is the user, the most recently created first,
\* and min(limit, n) of them, n being the number of the user's records: the
\* k-th row returned is the record with k - 1 later records of that user.
C29_HistoryNewestFirst ==
    /\ \A u \in Members, limit \in HistoryLimits :
          LET h == get_vouch_history(vouches, u, limit, FALSE)
              n == Cardinality(VouchesFor(u))
          IN  /\ Len(h) = IF limit < n THEN limit ELSE n
              /\ \A k \in DOMAIN h :
                    /\ h[k].target_id = u
                    /\ \E i \in VouchesFor(u) :
                          /\ h[k] = vouches[i]
                          /\ Cardinality({j \in VouchesFor(u) : j > i}) = k - 1
              /\ \A k, l \in DOMAIN h : k < l => h[k].created_at >= h[l].created_at
    /\ (reply.cmd = "vouchhistory" /\ reply.outcome = "ok" /\ reply.errors = {})
       => reply.value[1] = get_vouch_history(vouches, reply.member, 10, FALSE)

\* a target with an older and a newer vouch: the history shown starts with
\* the newer one, and with a limit of 1 it is the newer one alone
C29_Witness ==
    /\ reply.cmd = "vouchhistory"
    /\ reply.outcome = "ok"
    /\ Len(reply.value[1]) = 2
    /\ reply.value[1][1].created_at > reply.value[1][2].created_at
    /\ get_vouch_history(vouches, reply.member, 1, FALSE) = <<reply.value[1][1]>>

\* C30: a helpvouch of a target other than the helper (and not a bot) is
\* never refused, whatever the helper's CooldownMark and DummyUsage row are;
\* it adds 2 to the target's reputation when the helper is staff and 1
\* otherwise, appends exactly one HelpVouchRecord (target, helper, amount),
\* and leaves every CooldownMark and DummyUsage row as it was.
C30_HelpvouchNotRateLimited ==
    [][ (reply'.cmd = "helpvouch" /\ reply'.member # reply'.author
           /\ reply'.member \notin Bots)
        => LET t == reply'.member
               h == reply'.author
               amount == IF h \in Staff THEN 2 ELSE 1
           IN  /\ reply'.outcome = "ok"
               /\ UNCHANGED <<cooldowns, dummy_usage, vouches>>
               /\ reply'.errors = {}
                  => /\ get_reputation(users', t, FALSE) =
                            get_reputation(users, t, FALSE) + amount
                     /\ Len(helpvouches') = Len(helpvouches) + 1
                     /\ SubSeq(helpvouches', 1, Len(helpvouches)) = helpvouches
                     /\ LET rec == helpvouches'[Len(helpvouches')]
                        IN  /\ rec.target_id = t
                            /\ rec.helper_id = h
                            /\ rec.amount = amount ]_vars

\* a helper whose vouch cooldown is running and whose dummy quota was used
\* today has helpvouched the same target twice at the same instant
C30_Witness ==
    /\ Ran(reply, "helpvouch")
    /\ Len(helpvouches) = 2
    /\ helpvouches[1].helper_id = reply.author
    /\ helpvouches[1].target_id = reply.member
    /\ helpvouches[1].created_at = now
    /\ get_vouch_cooldown(cooldowns, reply.author, now, FALSE) # <<>>
    /\ reply.author \in DOMAIN dummy_usage

\* C31: the three blacklist operations agree.  After a repblacklist that set
\* the flag (no statement raising) is_blacklisted of the member is true, after
\* one that lifted it is_blacklisted is false; is_blacklisted is false for a
\* user without account; in every state get_blacklist is exactly the set of
\* users for whom is_blacklisted is true, and that is what viewblacklist
\* lists; and no repblacklist changes anybody's reputation.
C31_BlacklistConsistent ==
    /\ [](/\ get_blacklist(users, FALSE)
              = {u \in Everyone : is_blacklisted(users, u, FALSE)}
          /\ \A u \in Everyone \ DOMAIN users : ~is_blacklisted(users, u, FALSE)
          /\ reply.cmd = "viewblacklist" /\ reply.outcome = "ok" /\ reply.errors = {}
                 => reply.value[1] = {u \in Everyone : is_blacklisted(users, u, FALSE)}
          /\ reply.cmd = "viewblacklist" /\ reply.outcome = "empty" /\ reply.errors = {}
                 => \A u \in Everyone : ~is_blacklisted(users, u, FALSE))
    /\ [][reply'.cmd = "repblacklist" =>
            /\ \A u \in Everyone :
                  get_reputation(users', u, FALSE) = get_reputation(users, u, FALSE)
            /\ reply'.errors = {} /\ reply'.outcome = "blacklisted"
                  => is_blacklisted(users', reply'.member, FALSE)
            /\ reply'.errors = {} /\ reply'.outcome = "unblacklisted"
                  => ~is_blacklisted(users', reply'.member, FALSE)
            /\ reply'.errors = {} /\ reply'.outcome \in {"blacklisted", "unblacklisted"}
                  => \A u \in Everyone \ {reply'.member} :
                        is_blacklisted(users', u, FALSE) = is_blacklisted(users, u, FALSE)
         ]_vars

\* the flag of a user with reputation was set and lifted again while another
\* user stays blacklisted
C31_Witness ==
    /\ reply.cmd = "repblacklist" /\ reply.outcome = "unblacklisted"
    /\ reply.errors = {}
    /\ reply.member = "user"
    /\ get_reputation(users, "user", FALSE) > 0
    /\ get_blacklist(users, FALSE) = {"mod"}

\* C32: a restart of the file-backed ledger (the document is written, a
\* fresh instance loads it) reproduces the six collections value for value:
\* accounts, cooldown marks and dummy usage under the same identities, the
\* vouch, helpvouch and scammer report logs with the same rows in the same
\* order.
C32_FileRoundTrip ==
    [][reply'.cmd = "restart" =>
          /\ users' = users
          /\ vouches' = vouches
          /\ helpvouches' = helpvouches
          /\ cooldowns' = cooldowns
          /\ dummy_usage' = dummy_usage
          /\ scammer_reports' = scammer_reports
      ]_vars

\* a restart with every collection filled, two rows in the vouch log and
\* the three-digit identity among the document's keys
C32_Witness ==
    /\ reply.cmd = "restart"
    /\ <<"3", "0", "5">> \in DOMAIN reply.value[1].users
    /\ users["user"].is_blacklisted
    /\ Len(vouches) = 2 /\ vouches[1].voucher_id # vouches[2].voucher_id
    /\ Len(scammer_reports) = 2
    /\ helpvouches # <<>>
    /\ DOMAIN cooldowns = {"mod", "owner"}
    /\ "mod" \in DOMAIN dummy_usage

\* C33: every vouch command of a user who is blacklisted is answered with
\* the blacklist refusal, whatever its target and reason, and changes none
\* of the tables: no reputation, no vouch row, no cooldown mark.
C33_BlacklistedVouchRefused ==
    [][/\ reply'.cmd = "vouch"
       /\ is_blacklisted(users, reply'.author, FALSE)
       => /\ reply'.outcome = "blacklisted"
          /\ UNCHANGED dbVars
      ]_vars

\* C34: in every reachable state any two rows of the vouch log with the
\* same voucher_id have created_at timestamps at least VOUCH_COOLDOWN
\* seconds apart.
C34_OneVouchPerWindow ==
    \A i, j \in 1..Len(vouches) :
        i < j /\ vouches[i].voucher_id = vouches[j].voucher_id
            => vouches[j].created_at - vouches[i].created_at >= VOUCH_COOLDOWN

\* C35: in every reachable state no actor's DummyUsage row for the current
\* calendar date has a count above DUMMY_PER_DAY; the count is the record of
\* the actor's completed dummy actions of that date.
C35_DailyQuotaNeverExceeded ==
    \A a \in DOMAIN dummy_usage :
        dummy_usage[a].usage_date = CURRENT_DATE
            => dummy_usage[a].count <= DUMMY_PER_DAY

\* C36: a confirmed clear none of whose statements raised announces what it
\* deleted, whatever other commands ran during the wait: clearallscam's
\* report count is the number of reports removed, clearrep's reputation and
\* vouch count are the member's reputation and number of vouch rows at the
\* moment of the deletion.
C36_AnnouncedIsCleared ==
    [][/\ reply'.outcome = "cleared" /\ reply'.errors = {}
       => /\ reply'.cmd = "clearallscam"
                => reply'.value = <<Len(scammer_reports) - Len(scammer_reports')>>
          /\ reply'.cmd = "clearrep"
                => reply'.value = <<get_reputation(users, reply'.member, FALSE),
                                    Len(vouches) - Len(vouches')>>
      ]_vars

\* C37: a confirmed clearrep of u, whether or not one of its DELETEs raises,
\* changes nothing but u's Account row and the vouch and helpvouch rows
\* whose target is u: every CooldownMark and DummyUsage row (u's too), the
\* vouch and helpvouch rows whose target is somebody else (those u gave
\* too), every other Account and every scammer report stay as they were,
\* and the cooldown u is in is the same before and after.
C37_ClearFrame ==
    [][ (reply'.cmd = "clearrep" /\ reply'.outcome = "cleared")
        => LET u == reply'.member
           IN  /\ cooldowns' = cooldowns
               /\ dummy_usage' = dummy_usage
               /\ SelectSeq(vouches', LAMBDA r : r.target_id # u)
                     = SelectSeq(vouches, LAMBDA r : r.target_id # u)
               /\ SelectSeq(helpvouches', LAMBDA r : r.target_id # u)
                     = SelectSeq(helpvouches, LAMBDA r : r.target_id # u)
               /\ \A w \in Everyone \ {u} : Row(users', w) = Row(users, w)
               /\ scammer_reports' = scammer_reports
               /\ scammer_reports_id_seq' = scammer_reports_id_seq
               /\ get_vouch_cooldown(cooldowns', u, now', FALSE)
                     = get_vouch_cooldown(cooldowns, u, now, FALSE) ]_vars

\* a member in cooldown, with a dummy use of today, who had vouched and
\* helped somebody else and had been vouched for, was cleared: the rows
\* they gave are still there and they are still in cooldown
C37_Witness ==
    /\ reply.cmd = "clearrep" /\ reply.outcome = "cleared" /\ reply.errors = {}
    /\ reply.value[1] > 0 /\ reply.value[2] > 0
    /\ reply.member \notin DOMAIN users
    /\ get_vouch_cooldown(cooldowns, reply.member, now, FALSE) # <<>>
    /\ reply.member \in DOMAIN dummy_usage
    /\ \E i \in DOMAIN vouches : vouches[i].voucher_id = reply.member
    /\ \E i \in DOMAIN helpvouches : helpvouches[i].helper_id = reply.member

\* the page buttons of a LeaderboardView
PageButtons == {"first_page", "prev_page", "next_page", "last_page"}

\* C38: while a LeaderboardView exists its current_page is within
\* 0 .. number of pages - 1; a press of a page button by anyone but the
\* command's author leaves the view as it was; and after every accepted
\* press first and prev are disabled exactly when current_page is 0, next
\* and last exactly when current_page is the last page.
C38_Pagination ==
    /\ [](view # NoView
            => view[1].current_page \in 0..(Len(view[1].pages) - 1))
    /\ [][reply'.cmd \in PageButtons =>
            /\ reply'.author # view[1].author
                  => /\ view' = view
                     /\ reply'.outcome = "not_author"
            /\ reply'.author = view[1].author
                  => LET v == view'[1]
                     IN  /\ reply'.outcome = "ok"
                         /\ v.author = view[1].author /\ v.pages = view[1].pages
                         /\ v.disabled.first_page <=> v.current_page = 0
                         /\ v.disabled.prev_page <=> v.current_page = 0
                         /\ v.disabled.next_page <=> v.current_page = Len(v.pages) - 1
                         /\ v.disabled.last_page <=> v.current_page = Len(v.pages) - 1
         ]_vars

\* the author of a three-page leaderboard has pressed prev on its first
\* page, which stays the current one
C38_Witness ==
    /\ reply.cmd = "prev_page" /\ reply.outcome = "ok"
    /\ view # NoView
    /\ Len(view[1].pages) = 3
    /\ view[1].current_page = 0
    /\ view[1].disabled.prev_page /\ ~view[1].disabled.next_page

\* the position a label stands for
position_of(label) ==
    IF Len(label) = 2 THEN label[2]
    ELSE CASE label[1] = "gold" -> 1 [] label[1] = "silver" -> 2 [] OTHER -> 3

\* the lines of the first k pages, one after the other
RECURSIVE lines_of(_, _)
lines_of(pages, k) ==
    IF k = 0 THEN <<>> ELSE lines_of(pages, k - 1) \o pages[k].lines

\* C39: the pages made of a non-empty leaderboard of n entries are
\* ceil(n / LEADERBOARD_PER_PAGE) pages of 1 to LEADERBOARD_PER_PAGE lines;
\* read one after the other the lines are the entries in their order, each
\* once, and line i is labelled with position i, so the positions run from
\* 1 to n across the pages.
C39_PagesPartition ==
    reply.cmd = "leaderboard" /\ reply.outcome = "ok"
    => LET leaderboard == reply.value[1]
           pages == reply.value[2]
           n == Len(leaderboard)
           lines == lines_of(pages, Len(pages))
       IN  /\ Len(pages) * LEADERBOARD_PER_PAGE >= n
           /\ (Len(pages) - 1) * LEADERBOARD_PER_PAGE < n
           /\ \A p \in DOMAIN pages :
                 /\ Len(pages[p].lines) \in 1..LEADERBOARD_PER_PAGE
                 /\ p < Len(pages) => Len(pages[p].lines) = LEADERBOARD_PER_PAGE
           /\ Len(lines) = n
           /\ \A i \in 1..n :
                 /\ position_of(lines[i][1]) = i
                 /\ <<lines[i][2], lines[i][3]>> = leaderboard[i]

\* a leaderboard of 21 entries was shown: three pages, the last of one line
C39_Witness ==
    /\ reply.cmd = "leaderboard" /\ reply.outcome = "ok"
    /\ Len(reply.value[1]) = 2 * LEADERBOARD_PER_PAGE + 1
    /\ Len(reply.value[2]) = 3
    /\ Len(reply.value[2][3].lines) = 1
    /\ reply.value[2][3].lines[1][1] = <<"#", 2 * LEADERBOARD_PER_PAGE + 1>>
====
